---- MODULE Spec2Model ----
(***************************************************************************)
(* PreferenceManager of WeatherItBetter (src/src/agents/preference_agent.py)*)
(* and the two maintenance scripts that write to the Memory Bank.          *)
(*                                                                         *)
(* A Python str is a sequence of one-character strings, so that lower(),   *)
(* startswith(), the "in" substring test and f-string formatting are       *)
(* computed rather than assumed.  The backing file holds JSON text at      *)
(* token granularity (punctuation, string literals with their escapes,     *)
(* numbers, null); json.dump and json.load are the two directions.         *)
(***************************************************************************)
EXTENDS Integers, Sequences, FiniteSets, TLC

(***************************************************************************)
(* Bounds of the model.                                                    *)
(***************************************************************************)
\* largest number of entries the in-memory mapping is driven to
MaxPrefs == 2
\* largest number of results one retrieve call returns
MaxFacts == 2
\* largest number of remote writes scheduled on the event loop at once
MaxTasks == 1
\* largest number of writes of the backing file that fail in one run
MaxWriteFailures == 1
\* largest number of events of a day a recommendation is made over
MaxEvents == 2
\* largest number of calls of authenticate() in one run
MaxAuthCalls == 3
\* the record_request calls made on the collector
MaxRequests == 3

(***************************************************************************)
(* Strings.                                                                *)
(***************************************************************************)
\* the letters str.lower() changes ...
UPPERCASE ==
    <<"A", "B", "C", "D", "E", "F", "G", "H", "I", "J", "K", "L", "M", "N", "O", "P", "Q", "R", "S", "T", "U", "V", "W", "X", "Y", "Z">>

\* ... and what it changes them to
LOWERCASE ==
    <<"a", "b", "c", "d", "e", "f", "g", "h", "i", "j", "k", "l", "m", "n", "o", "p", "q", "r", "s", "t", "u", "v", "w", "x", "y", "z">>

\* decimal digits, for formatting len(...) + 1 into a key
DIGITS ==
    <<"0", "1", "2", "3", "4", "5", "6", "7", "8", "9">>

\* the phrase of the generic-preference filter
GENERIC_PHRASE ==
    <<"r", "e", "m", "e", "m", "b", "e", "r", " ", "m", "y", " ", "c", "l", "o", "t", "h", "i", "n", "g", " ", "p", "r", "e", "f", "e", "r", "e", "n", "c", "e", "s">>

\* the auto-key prefix
PREF_PREFIX ==
    <<"p", "r", "e", "f", "_">>

\* the keywords of the fact filter
KW_PREFER ==
    <<"p", "r", "e", "f", "e", "r">>

KW_STYLE ==
    <<"s", "t", "y", "l", "e">>

KW_CASUAL ==
    <<"c", "a", "s", "u", "a", "l">>

KW_FORMAL ==
    <<"f", "o", "r", "m", "a", "l">>

\* keys and values callers pass, and fact texts the service returns
K_STYLE ==
    <<"s", "t", "y", "l", "e">>

K_PREF_COLOR ==
    <<"p", "r", "e", "f", "_", "c", "o", "l", "o", "r">>

V_GENERIC_MIXED ==
    <<"R", "e", "m", "e", "m", "b", "e", "r", " ", "M", "y", " ", "C", "l", "o", "t", "h", "i", "n", "g", " ", "P", "r", "e", "f", "e", "r", "e", "n", "c", "e", "s">>

V_CELSIUS ==
    <<"p", "r", "e", "f", "e", "r", "s", " ", "C", "e", "l", "s", "i", "u", "s">>

V_QUOTED ==
    <<"\"", "b", "o", "h", "o", "\"", " ", "l", "o", "o", "k">>

V_BACKSLASH ==
    <<"a", "\\", "b">>

F_FORMAL_UPPER ==
    <<"F", "O", "R", "M", "A", "L", " ", "w", "e", "a", "r">>

F_HATS ==
    <<"l", "i", "k", "e", "s", " ", "h", "a", "t", "s">>

F_CASUAL_MIXED ==
    <<"S", "m", "a", "r", "t", " ", "C", "a", "s", "u", "a", "l">>

F_LIFESTYLE ==
    <<"l", "i", "f", "e", "s", "t", "y", "l", "e">>

EMPTY_STR ==
    <<>>

\* str.lower() on one character
LowerChar(c) ==
    IF \E i \in 1..Len(UPPERCASE) : UPPERCASE[i] = c
    THEN LOWERCASE[CHOOSE i \in 1..Len(UPPERCASE) : UPPERCASE[i] = c]
    ELSE c

\* str(n) for n >= 0
RECURSIVE IntToStr(_)
IntToStr(n) ==
    IF n < 10 THEN <<DIGITS[n + 1]>>
    ELSE IntToStr(n \div 10) \o <<DIGITS[(n % 10) + 1]>>

\* f"pref_{n}"
PrefKey(n) ==
    PREF_PREFIX \o IntToStr(n)

\* the strings of the model: the character-by-character functions below
\* are tabulated over them once, and computed for any other string
Texts ==
    {K_STYLE, K_PREF_COLOR, PREF_PREFIX, V_GENERIC_MIXED, V_CELSIUS, V_QUOTED,
     V_BACKSLASH,
     F_FORMAL_UPPER, F_HATS, F_CASUAL_MIXED, F_LIFESTYLE, EMPTY_STR}
    \cup {PrefKey(n) : n \in 0..(MaxPrefs + 2)}

LowerTable ==
    [s \in Texts |-> [i \in 1..Len(s) |-> LowerChar(s[i])]]

\* str.lower()
Lower(s) ==
    IF s \in Texts THEN LowerTable[s] ELSE [i \in 1..Len(s) |-> LowerChar(s[i])]

\* sub in s
Contains(sub, s) ==
    \E i \in 0..(Len(s) - Len(sub)) : SubSeq(s, i + 1, i + Len(sub)) = sub

\* s.startswith(p)
StartsWith(s, p) ==
    /\ Len(s) >= Len(p)
    /\ SubSeq(s, 1, Len(p)) = p

(***************************************************************************)
(* Python objects json.load can return.  A dict keeps its entries in       *)
(* insertion order, as <<key, value>> pairs with distinct keys.            *)
(***************************************************************************)
PyDict(items) ==
    [type |-> "dict", items |-> items, elems |-> <<>>, text |-> <<>>]

PyList(elems) ==
    [type |-> "list", items |-> <<>>, elems |-> elems, text |-> <<>>]

PyStr(text) ==
    [type |-> "str", items |-> <<>>, elems |-> <<>>, text |-> text]

PyInt(digits) ==
    [type |-> "int", items |-> <<>>, elems |-> <<>>, text |-> digits]

PyNone ==
    [type |-> "NoneType", items |-> <<>>, elems |-> <<>>, text |-> <<>>]

EmptyDict ==
    PyDict(<<>>)

\* the keys of a dict's entries
KeysOf(items) ==
    {items[i][1] : i \in 1..Len(items)}

\* d[k] for a key that is present
ValueOf(items, k) ==
    items[CHOOSE i \in 1..Len(items) : items[i][1] = k][2]

\* d[k] = v done as a removal and an insertion: a present key moves to
\* the end
DictSetMoveToEnd(items, k, v) ==
    Append(SelectSeq(items, LAMBDA e : e[1] # k), <<k, v>>)

\* d[k] = v: a present key keeps its position, a new key goes last
DictSet(items, k, v) ==
    IF k \in KeysOf(items)
    THEN [i \in 1..Len(items) |-> IF items[i][1] = k THEN <<k, v>> ELSE items[i]]
    ELSE Append(items, <<k, v>>)

\* d.update(other)
RECURSIVE DictUpdate(_, _)
DictUpdate(items, other) ==
    IF other = <<>> THEN items
    ELSE DictUpdate(DictSet(items, Head(other)[1], Head(other)[2]), Tail(other))

\* list(d.values())
ValuesOf(items) ==
    [i \in 1..Len(items) |-> items[i][2]]

(***************************************************************************)
(* JSON text, as a sequence of tokens.  A string literal token carries,    *)
(* for each character of the string, its text between the quotes: the      *)
(* character itself or its escape sequence.  The texts considered hold     *)
(* printable ASCII only and objects whose values are string literals.      *)
(***************************************************************************)
Tok(t) ==
    [t |-> t, s |-> <<>>]

StrTok(s) ==
    [t |-> "str", s |-> s]

NumTok(s) ==
    [t |-> "num", s |-> s]

\* what json.dump writes for one character: a quote and a backslash are
\* escaped
EscapeChar(c) ==
    IF c = "\"" THEN "\\\""
    ELSE IF c = "\\" THEN "\\\\"
    ELSE c

\* the character json.load reads from one character's text
UnescapeChar(u) ==
    IF u = "\\\"" THEN "\""
    ELSE IF u = "\\\\" THEN "\\"
    ELSE u

\* the text of a str between the quotes of its literal
EscapeTable ==
    [s \in Texts |-> [i \in 1..Len(s) |-> EscapeChar(s[i])]]

\* a str written between the quotes as it is
EscapeVerbatim(s) ==
    s

Escape(s) ==
    IF s \in Texts THEN EscapeTable[s] ELSE [i \in 1..Len(s) |-> EscapeChar(s[i])]

\* a string literal json.load accepts: no bare quote, no bare backslash
ValidLiteral(s) ==
    \A i \in 1..Len(s) : s[i] \notin {"\"", "\\"}

\* the str a valid string literal denotes
UnescapeTable ==
    [s \in {EscapeTable[x] : x \in Texts} |-> [i \in 1..Len(s) |-> UnescapeChar(s[i])]]

Unescape(s) ==
    IF s \in DOMAIN UnescapeTable THEN UnescapeTable[s]
    ELSE [i \in 1..Len(s) |-> UnescapeChar(s[i])]

\* the members of an object, comma separated
RECURSIVE DumpMembers(_)
DumpMembers(items) ==
    IF items = <<>> THEN <<>>
    ELSE <<StrTok(Escape(items[1][1])), Tok(":"), StrTok(Escape(items[1][2]))>>
         \o (IF Len(items) > 1 THEN <<Tok(",")>> ELSE <<>>)
         \o DumpMembers(Tail(items))

\* the elements of an array, comma separated
RECURSIVE DumpElements(_)
DumpElements(elems) ==
    IF elems = <<>> THEN <<>>
    ELSE <<StrTok(Escape(elems[1]))>>
         \o (IF Len(elems) > 1 THEN <<Tok(",")>> ELSE <<>>)
         \o DumpElements(Tail(elems))

\* json.dump(obj, f, indent=2): the text written
JsonDump(obj) ==
    CASE obj.type = "dict" -> <<Tok("{")>> \o DumpMembers(obj.items) \o <<Tok("}")>>
      [] obj.type = "list" -> <<Tok("[")>> \o DumpElements(obj.elems) \o <<Tok("]")>>
      [] obj.type = "str" -> <<StrTok(Escape(obj.text))>>
      [] obj.type = "int" -> <<NumTok(obj.text)>>
      [] OTHER -> <<Tok("null")>>

JsonError ==
    [ok |-> FALSE, value |-> PyNone]

JsonValue(v) ==
    [ok |-> TRUE, value |-> v]

IsStrTok(toks, i) ==
    /\ i <= Len(toks)
    /\ toks[i].t = "str"
    /\ ValidLiteral(toks[i].s)

IsTok(toks, i, t) ==
    /\ i <= Len(toks)
    /\ toks[i].t = t

\* members from token i on, up to the closing brace that ends the text;
\* a repeated key keeps its first position and takes the last value
RECURSIVE ParseMembers(_, _, _)
ParseMembers(toks, i, acc) ==
    IF ~(IsStrTok(toks, i) /\ IsTok(toks, i + 1, ":") /\ IsStrTok(toks, i + 2))
    THEN JsonError
    ELSE LET next == DictSet(acc, Unescape(toks[i].s), Unescape(toks[i + 2].s))
         IN  IF IsTok(toks, i + 3, "}") /\ i + 3 = Len(toks) THEN JsonValue(PyDict(next))
             ELSE IF IsTok(toks, i + 3, ",") THEN ParseMembers(toks, i + 4, next)
             ELSE JsonError

\* elements from token i on, up to the closing bracket that ends the text
RECURSIVE ParseElements(_, _, _)
ParseElements(toks, i, acc) ==
    IF ~IsStrTok(toks, i) THEN JsonError
    ELSE LET next == Append(acc, Unescape(toks[i].s))
         IN  IF IsTok(toks, i + 1, "]") /\ i + 1 = Len(toks) THEN JsonValue(PyList(next))
             ELSE IF IsTok(toks, i + 1, ",") THEN ParseElements(toks, i + 2, next)
             ELSE JsonError

\* json.load(f): ok = FALSE stands for json.JSONDecodeError
JsonLoad(toks) ==
    IF toks = <<>> THEN JsonError
    ELSE IF toks[1].t = "{"
         THEN IF Len(toks) = 2 /\ toks[2].t = "}" THEN JsonValue(EmptyDict)
              ELSE ParseMembers(toks, 2, <<>>)
    ELSE IF toks[1].t = "["
         THEN IF Len(toks) = 2 /\ toks[2].t = "]" THEN JsonValue(PyList(<<>>))
              ELSE ParseElements(toks, 2, <<>>)
    ELSE IF Len(toks) # 1 THEN JsonError
    ELSE IF toks[1].t = "str"
         THEN IF ValidLiteral(toks[1].s) THEN JsonValue(PyStr(Unescape(toks[1].s)))
              ELSE JsonError
    ELSE IF toks[1].t = "num" THEN JsonValue(PyInt(toks[1].s))
    ELSE IF toks[1].t = "null" THEN JsonValue(PyNone)
    ELSE JsonError

(***************************************************************************)
(* The answer of the language model to the preference-extraction prompt.   *)
(***************************************************************************)
\* the two keys of the object the prompt asks for
K_IS_PREFERENCE ==
    <<"i", "s", "_", "p", "r", "e", "f", "e", "r", "e", "n", "c", "e">>

K_PREFERENCE ==
    <<"p", "r", "e", "f", "e", "r", "e", "n", "c", "e">>

PyBool(b) ==
    [type |-> "bool", items |-> <<>>, elems |-> <<>>,
     text |-> IF b THEN <<"1">> ELSE <<>>]

\* bool(obj)
Truthy(obj) ==
    CASE obj.type = "dict" -> obj.items # <<>>
      [] obj.type = "list" -> obj.elems # <<>>
      [] obj.type = "int" -> obj.text # <<"0">>
      [] obj.type = "NoneType" -> FALSE
      [] OTHER -> obj.text # <<>>

\* a token that is a value by itself
IsScalarTok(toks, i) ==
    \/ IsStrTok(toks, i)
    \/ /\ i <= Len(toks)
       /\ toks[i].t \in {"true", "false", "null", "num"}

\* the object it denotes
ScalarOf(tok) ==
    CASE tok.t = "str" -> PyStr(Unescape(tok.s))
      [] tok.t = "true" -> PyBool(TRUE)
      [] tok.t = "false" -> PyBool(FALSE)
      [] tok.t = "num" -> PyInt(tok.s)
      [] OTHER -> PyNone

\* what json.loads makes of a text: ok = FALSE stands for
\* json.JSONDecodeError, object says the value is a dict, whose members
\* are <<key, object>> pairs
AnswerError ==
    [ok |-> FALSE, object |-> FALSE, members |-> <<>>]

\* the members of an object whose values are scalars, from token i on
RECURSIVE ParseScalarMembers(_, _, _)
ParseScalarMembers(toks, i, acc) ==
    IF ~(IsStrTok(toks, i) /\ IsTok(toks, i + 1, ":") /\ IsScalarTok(toks, i + 2))
    THEN AnswerError
    ELSE LET next == DictSet(acc, Unescape(toks[i].s), ScalarOf(toks[i + 2]))
         IN  IF IsTok(toks, i + 3, "}") /\ i + 3 = Len(toks)
             THEN [ok |-> TRUE, object |-> TRUE, members |-> next]
             ELSE IF IsTok(toks, i + 3, ",") THEN ParseScalarMembers(toks, i + 4, next)
             ELSE AnswerError

\* json.loads(response.text)
JsonLoads(toks) ==
    IF toks = <<>> THEN AnswerError
    ELSE IF toks[1].t = "{"
         THEN IF Len(toks) = 2 /\ toks[2].t = "}"
              THEN [ok |-> TRUE, object |-> TRUE, members |-> <<>>]
              ELSE ParseScalarMembers(toks, 2, <<>>)
    ELSE IF Len(toks) = 1 /\ toks[1].t \in {"true", "false"}
         THEN [ok |-> TRUE, object |-> FALSE, members |-> <<>>]
    ELSE [ok |-> JsonLoad(toks).ok, object |-> FALSE, members |-> <<>>]

\* result.get(k)
DictGet(members, k) ==
    IF k \in KeysOf(members) THEN ValueOf(members, k) ELSE PyNone

\* the object the prompt asks for, with preference text v
AnswerObject(is_preference, v) ==
    <<Tok("{"), StrTok(Escape(K_IS_PREFERENCE)), Tok(":"),
      Tok(IF is_preference THEN "true" ELSE "false"), Tok(","),
      StrTok(Escape(K_PREFERENCE)), Tok(":"),
      (IF is_preference THEN StrTok(Escape(v)) ELSE Tok("null")), Tok("}")>>

\* the answers chat is given: the object asked for with a preference and
\* without one; a text cut short, no text, an array, a string; an object
\* without its keys, with one of them only
ChatAnswers ==
    {AnswerObject(TRUE, V_CELSIUS),
     AnswerObject(FALSE, EMPTY_STR),
     <<Tok("{"), StrTok(Escape(K_IS_PREFERENCE))>>,
     <<>>,
     <<Tok("["), StrTok(Escape(V_CELSIUS)), Tok("]")>>,
     <<StrTok(Escape(V_CELSIUS))>>,
     <<Tok("{"), Tok("}")>>,
     <<Tok("{"), StrTok(Escape(K_IS_PREFERENCE)), Tok(":"), Tok("true"), Tok("}")>>,
     <<Tok("{"), StrTok(Escape(K_PREFERENCE)), Tok(":"), StrTok(Escape(V_CELSIUS)),
       Tok("}")>>}

(***************************************************************************)
(* The backing file.                                                       *)
(***************************************************************************)
\* no file at storage_path
FileAbsent ==
    [kind |-> "absent", toks |-> <<>>]

\* a file open() refuses with an OSError (permissions, a directory)
FileUnreadable ==
    [kind |-> "unreadable", toks |-> <<>>]

\* a file whose bytes are not text in the default encoding
FileUndecodable ==
    [kind |-> "undecodable", toks |-> <<>>]

\* a file holding the text toks
FileText(toks) ==
    [kind |-> "text", toks |-> toks]

(***************************************************************************)
(* The methods of PreferenceManager, as functions of what they read.       *)
(***************************************************************************)
\* _load_preferences_from_file: the value returned, or raised = TRUE when
\* an exception leaves it.  json.JSONDecodeError and IOError are caught;
\* the UnicodeDecodeError of f.read() is neither.
LoadPreferencesFromFile(f) ==
    CASE f.kind = "absent" -> [raised |-> FALSE, value |-> EmptyDict]
      [] f.kind = "unreadable" -> [raised |-> FALSE, value |-> EmptyDict]
      [] f.kind = "undecodable" -> [raised |-> TRUE, value |-> PyNone]
      [] OTHER ->
           IF JsonLoad(f.toks).ok
           THEN [raised |-> FALSE, value |-> JsonLoad(f.toks).value]
           ELSE [raised |-> FALSE, value |-> EmptyDict]

\* what can happen to a write: it succeeds, open() raises IOError, or the
\* write raises IOError after open() truncated the file
IoOutcomes ==
    {"ok", "open_error", "write_error"}

\* a save that leaves the file as it was
SavePreferencesToFileStale(f, prefs, io) ==
    f

\* _save_preferences_to_file: the file afterwards (IOError is caught)
SavePreferencesToFile(f, prefs, io) ==
    CASE io = "ok" -> FileText(JsonDump(prefs))
      [] io = "open_error" -> f
      [] OTHER -> FileText(<<>>)

\* the generic-preference test without lower()
IsGenericPreferenceCaseSensitive(value) ==
    Contains(GENERIC_PHRASE, value)

\* the generic-preference test of _save_to_memory_bank
IsGenericPreference(value) ==
    Contains(GENERIC_PHRASE, Lower(value))

\* what can happen to a remote write: it succeeds, vertexai.Client raises,
\* memories.generate raises, or memories.generate (called with
\* wait_for_completion) never returns
GenerateOutcomes ==
    {"ok", "client_error", "generate_error", "hang"}

\* what _save_to_memory_bank did when it sent nothing
NothingSent ==
    [generated |-> <<>>, stored |-> FALSE, raised |-> FALSE, hung |-> FALSE]

\* a remote write whose exceptions leave _save_to_memory_bank
SaveToMemoryBankUncaught(uv, ms, value, net) ==
    IF ~uv \/ ~ms THEN NothingSent
    ELSE IF IsGenericPreference(value) THEN NothingSent
    ELSE IF net = "client_error" THEN [NothingSent EXCEPT !.raised = TRUE]
    ELSE [generated |-> <<value>>, stored |-> (net = "ok"),
          raised |-> (net = "generate_error"), hung |-> (net = "hang")]

\* _save_to_memory_bank: the values passed to memories.generate (none or
\* one), whether the service stored a fact, whether an exception left the
\* method (none does: every exception is caught) and whether the call
\* never returned
SaveToMemoryBank(uv, ms, value, net) ==
    IF ~uv \/ ~ms THEN NothingSent
    ELSE IF IsGenericPreference(value) THEN NothingSent
    ELSE IF net = "client_error" THEN NothingSent
    ELSE [generated |-> <<value>>, stored |-> (net = "ok"),
          raised |-> FALSE, hung |-> (net = "hang")]

\* every key used as given, the prefix never replaced by a counter
PrefIdVerbatim(prefs, key) ==
    [raised |-> FALSE, key |-> key]

\* the counter used for the bare prefix only, not for every key that
\* starts with it
PrefIdExactSentinel(prefs, key) ==
    IF key = PREF_PREFIX
    THEN IF prefs.type \in {"int", "NoneType"}
         THEN [raised |-> TRUE, key |-> key]
         ELSE [raised |-> FALSE,
               key |-> PrefKey((CASE prefs.type = "dict" -> Len(prefs.items)
                                  [] prefs.type = "list" -> Len(prefs.elems)
                                  [] OTHER -> Len(prefs.text)) + 1)]
    ELSE [raised |-> FALSE, key |-> key]

\* the key add_preference and add_preference_async store under; raised
\* stands for the TypeError of len() on an object without a length
PrefId(prefs, key) ==
    IF StartsWith(key, PREF_PREFIX)
    THEN IF prefs.type \in {"int", "NoneType"}
         THEN [raised |-> TRUE, key |-> key]
         ELSE [raised |-> FALSE,
               key |-> PrefKey((CASE prefs.type = "dict" -> Len(prefs.items)
                                  [] prefs.type = "list" -> Len(prefs.elems)
                                  [] OTHER -> Len(prefs.text)) + 1)]
    ELSE [raised |-> FALSE, key |-> key]

\* self.preferences[pref_id] = value; raised stands for the TypeError of
\* item assignment on a list, a str, an int or None
StoreInMemory(prefs, pref_id, value) ==
    IF prefs.type = "dict"
    THEN [raised |-> FALSE, prefs |-> PyDict(DictSet(prefs.items, pref_id, value))]
    ELSE [raised |-> TRUE, prefs |-> prefs]

\* one result of memories.retrieve: a memory with a fact, or an object
\* without that attribute
Fact(text) ==
    [has_fact |-> TRUE, fact |-> text]

NoFact ==
    [has_fact |-> FALSE, fact |-> EMPTY_STR]

\* the keyword test with the text compared as it is
LooksLikePreferenceCaseSensitive(fact_text) ==
    /\ fact_text # EMPTY_STR
    /\ \/ Contains(KW_PREFER, fact_text)
       \/ Contains(KW_STYLE, fact_text)
       \/ Contains(KW_CASUAL, fact_text)
       \/ Contains(KW_FORMAL, fact_text)

\* the keyword test of load_from_memory_bank
LooksLikePreference(fact_text) ==
    /\ fact_text # EMPTY_STR
    /\ \/ Contains(KW_PREFER, Lower(fact_text))
       \/ Contains(KW_STYLE, Lower(fact_text))
       \/ Contains(KW_CASUAL, Lower(fact_text))
       \/ Contains(KW_FORMAL, Lower(fact_text))

\* the loop of load_from_memory_bank: loaded_prefs after the results
RECURSIVE LoadedPrefs(_, _)
LoadedPrefs(results, loaded) ==
    IF results = <<>> THEN loaded
    ELSE LET r == Head(results)
         IN  IF r.has_fact /\ LooksLikePreference(r.fact)
             THEN LoadedPrefs(Tail(results),
                              DictSet(loaded, PrefKey(Len(loaded) + 1), r.fact))
             ELSE LoadedPrefs(Tail(results), loaded)

\* what can happen to the retrieval: it succeeds, vertexai.Client raises,
\* memories.retrieve raises, or iterating the results raises after those
\* given were yielded
RetrieveOutcomes ==
    {"ok", "client_error", "retrieve_error", "iterate_error"}

\* a merge done fact by fact inside the loop, so that what was accepted
\* before the retrieval failed stays merged
LoadFromMemoryBankEager(prefs, results, net) ==
    LET loaded == LoadedPrefs(results, <<>>)
    IN  IF net \in {"client_error", "retrieve_error"} \/ loaded = <<>> \/ prefs.type # "dict"
        THEN [returned |-> <<>>, prefs |-> prefs, merged |-> 0, save |-> FALSE]
        ELSE [returned |-> IF net = "ok" THEN loaded ELSE <<>>,
              prefs |-> PyDict(DictUpdate(prefs.items, loaded)),
              merged |-> Len(loaded),
              save |-> TRUE]

\* a load that replaces the mapping by what it accepted
LoadFromMemoryBankReplace(prefs, results, net) ==
    LET loaded == LoadedPrefs(results, <<>>)
    IN  IF net # "ok" \/ loaded = <<>> \/ prefs.type # "dict"
        THEN [returned |-> <<>>, prefs |-> prefs, merged |-> 0, save |-> FALSE]
        ELSE [returned |-> loaded,
              prefs |-> PyDict(loaded),
              merged |-> Len(loaded),
              save |-> TRUE]

\* a load that numbers its keys by the count of the memories seen, so that
\* a skipped memory leaves a gap in the numbering
LoadFromMemoryBankByMemoryCount(prefs, results, net) ==
    LET Accepted(i) == results[i].has_fact /\ LooksLikePreference(results[i].fact)
        counts == SelectSeq([i \in 1..Len(results) |-> i], Accepted)
        loaded == [n \in 1..Len(counts) |-> <<PrefKey(counts[n]), results[counts[n]].fact>>]
    IN  IF net # "ok" \/ loaded = <<>> \/ prefs.type # "dict"
        THEN [returned |-> <<>>, prefs |-> prefs, merged |-> 0, save |-> FALSE]
        ELSE [returned |-> loaded,
              prefs |-> PyDict(DictUpdate(prefs.items, loaded)),
              merged |-> Len(loaded),
              save |-> TRUE]

\* a load that keys what it accepted after the entries the mapping holds
LoadFromMemoryBankAppend(prefs, results, net) ==
    LET loaded == LoadedPrefs(results, <<>>)
    IN  IF net # "ok" \/ loaded = <<>> \/ prefs.type # "dict"
        THEN [returned |-> <<>>, prefs |-> prefs, merged |-> 0, save |-> FALSE]
        ELSE [returned |-> loaded,
              prefs |-> PyDict(prefs.items \o
                               [i \in 1..Len(loaded) |->
                                  <<PrefKey(Len(prefs.items) + i), loaded[i][2]>>]),
              merged |-> Len(loaded),
              save |-> TRUE]

\* load_from_memory_bank past its guard: the dict returned, the mapping
\* afterwards, how many entries update() wrote into it and whether the
\* file is saved.  Every exception is caught,
\* the AttributeError of update() on an object that is no dict included.
LoadFromMemoryBank(prefs, results, net) ==
    LET loaded == LoadedPrefs(results, <<>>)
    IN  IF net # "ok" \/ loaded = <<>> \/ prefs.type # "dict"
        THEN [returned |-> <<>>, prefs |-> prefs, merged |-> 0, save |-> FALSE]
        ELSE [returned |-> loaded,
              prefs |-> PyDict(DictUpdate(prefs.items, loaded)),
              merged |-> Len(loaded),
              save |-> TRUE]

\* the attribution set to the Memory Bank whatever was returned
SourceAfterLoadAlways(returned) ==
    "vertex_ai_memory_bank"

\* initialize_memory_bank: the attribution after load_from_memory_bank
\* returned
SourceAfterLoad(returned) ==
    IF returned # <<>> THEN "vertex_ai_memory_bank" ELSE "local_file"

\* the generic-preference test of push_preference
PushIsGeneric(value) ==
    Contains(GENERIC_PHRASE, Lower(value))

(***************************************************************************)
(* Calendar events and their classification.                               *)
(***************************************************************************)
\* the keyword lists of analyze_event, in the order they are tried
OUTDOOR_LOCATION_WORDS ==
    <<<<"p", "a", "r", "k">>,
      <<"o", "u", "t", "d", "o", "o", "r">>,
      <<"t", "r", "a", "i", "l">>,
      <<"b", "e", "a", "c", "h">>>>

OFFICE_LOCATION_WORDS ==
    <<<<"o", "f", "f", "i", "c", "e">>,
      <<"w", "o", "r", "k", "p", "l", "a", "c", "e">>>>

HOME_LOCATION_WORDS ==
    <<<<"h", "o", "m", "e">>,
      <<"h", "o", "u", "s", "e">>>>

FORMAL_WORDS ==
    <<<<"m", "e", "e", "t", "i", "n", "g">>,
      <<"p", "r", "e", "s", "e", "n", "t", "a", "t", "i", "o", "n">>,
      <<"i", "n", "t", "e", "r", "v", "i", "e", "w">>,
      <<"c", "l", "i", "e", "n", "t">>>>

BUSINESS_WORDS ==
    <<<<"w", "o", "r", "k">>,
      <<"o", "f", "f", "i", "c", "e">>,
      <<"b", "u", "s", "i", "n", "e", "s", "s">>>>

EXERCISE_WORDS ==
    <<<<"g", "y", "m">>,
      <<"w", "o", "r", "k", "o", "u", "t">>,
      <<"r", "u", "n">>,
      <<"e", "x", "e", "r", "c", "i", "s", "e">>,
      <<"y", "o", "g", "a">>,
      <<"f", "i", "t", "n", "e", "s", "s">>>>

OUTDOOR_SUMMARY_WORDS ==
    <<<<"o", "u", "t", "d", "o", "o", "r">>,
      <<"o", "u", "t", "s", "i", "d", "e">>,
      <<"p", "a", "r", "k">>,
      <<"h", "i", "k", "e">>>>

\* the locations of the events analysed: a park, an office in a park, an
\* office, an office at home, a house, a house on a beach, a cafe, none
EventLocations ==
    {<<"C", "e", "n", "t", "r", "a", "l", " ", "P", "a", "r", "k">>,
     <<"O", "f", "f", "i", "c", "e", " ", "P", "a", "r", "k">>,
     <<"H", "e", "a", "d", " ", "O", "f", "f", "i", "c", "e">>,
     <<"H", "o", "m", "e", " ", "o", "f", "f", "i", "c", "e">>,
     <<"M", "y", " ", "h", "o", "u", "s", "e">>,
     <<"B", "e", "a", "c", "h", " ", "H", "o", "u", "s", "e">>,
     <<"C", "a", "f", "e">>,
     <<>>}

\* their summaries: formal; work and formal; business; business and formal
\* in upper case; exercise; outdoor; none of these; empty
EventSummaries ==
    {<<"C", "l", "i", "e", "n", "t", " ", "M", "e", "e", "t", "i", "n", "g">>,
     <<"W", "o", "r", "k", " ", "m", "e", "e", "t", "i", "n", "g">>,
     <<"O", "f", "f", "i", "c", "e", " ", "p", "a", "r", "t", "y">>,
     <<"B", "U", "S", "I", "N", "E", "S", "S", " ", "I", "N", "T", "E", "R", "V", "I", "E", "W">>,
     <<"Y", "o", "g", "a">>,
     <<"H", "i", "k", "e", " ", "o", "u", "t", "s", "i", "d", "e">>,
     <<"L", "u", "n", "c", "h">>,
     <<>>}

\* any(word in text for word in words)
AnyWordIn(words, text) ==
    \E i \in 1..Len(words) : Contains(words[i], text)

\* the analysis with the office words tried before the outdoor words
AnalyzeEventOfficeFirst(has_summary, summary_text, has_location, location_text) ==
    LET summary == Lower(IF has_summary THEN summary_text ELSE EMPTY_STR)
        location == Lower(IF has_location THEN location_text ELSE EMPTY_STR)
        location_type == IF AnyWordIn(OFFICE_LOCATION_WORDS, location) THEN "office"
                         ELSE IF AnyWordIn(OUTDOOR_LOCATION_WORDS, location) THEN "outdoor"
                         ELSE IF AnyWordIn(HOME_LOCATION_WORDS, location) THEN "home"
                         ELSE "indoor"
    IN  [location_type |-> location_type,
         formality |-> IF AnyWordIn(FORMAL_WORDS, summary) THEN "formal"
                       ELSE IF AnyWordIn(BUSINESS_WORDS, summary) THEN "business_casual"
                       ELSE "casual",
         is_exercise |-> AnyWordIn(EXERCISE_WORDS, summary),
         is_outdoor |-> \/ location_type = "outdoor"
                        \/ AnyWordIn(OUTDOOR_SUMMARY_WORDS, summary)]

\* ActivityDetector.analyze_event on an event that has or lacks a summary
\* and a location
AnalyzeEvent(has_summary, summary_text, has_location, location_text) ==
    LET summary == Lower(IF has_summary THEN summary_text ELSE EMPTY_STR)
        location == Lower(IF has_location THEN location_text ELSE EMPTY_STR)
        location_type == IF AnyWordIn(OUTDOOR_LOCATION_WORDS, location) THEN "outdoor"
                         ELSE IF AnyWordIn(OFFICE_LOCATION_WORDS, location) THEN "office"
                         ELSE IF AnyWordIn(HOME_LOCATION_WORDS, location) THEN "home"
                         ELSE "indoor"
    IN  [location_type |-> location_type,
         formality |-> IF AnyWordIn(FORMAL_WORDS, summary) THEN "formal"
                       ELSE IF AnyWordIn(BUSINESS_WORDS, summary) THEN "business_casual"
                       ELSE "casual",
         is_exercise |-> AnyWordIn(EXERCISE_WORDS, summary),
         is_outdoor |-> \/ location_type = "outdoor"
                        \/ AnyWordIn(OUTDOOR_SUMMARY_WORDS, summary)]

(***************************************************************************)
(* State.                                                                  *)
(***************************************************************************)
VARIABLES
    phase,                    \* "uninitialized", "ready", "crashed" when __init__ raised,
                              \* "blocked" inside a remote write that never returns
    file,                     \* the backing file at storage_path
    preferences,              \* self.preferences
    use_vertex_ai,            \* self.use_vertex_ai
    memory_service,           \* self.memory_service is not None
    preferences_loaded_from,  \* self.preferences_loaded_from
    remote,                   \* the values the Memory Bank stored a fact for
    tasks,                    \* remote writes scheduled on the event loop, not yet run
    write_failures,           \* how many writes of the backing file have failed
    from_empty,               \* the mapping was empty at construction or cleared since
    auto_max,                 \* the largest N of the keys pref_N the adds of this
                              \* instance have generated, 0 when they generated none
    last,                     \* the call that completed last, with what it did
    runs,                     \* three stores given the same calls: one whose remote
                              \* writes succeed, one whose remote writes fail, one
                              \* with the remote store switched off
    main,                     \* the application start: the configuration it finds,
                              \* how far main() or an agent constructor has come
    adding,                   \* the add_preference call in progress, when its
                              \* statements are followed one by one
    filtering,                \* the loop of load_from_memory_bank on its own: the
                              \* results it is given and the dict it builds
    analysing,                \* a calendar event and what analyze_event made of it
    retrieval,                \* what memories.retrieve answers while the Memory
                              \* Bank is left alone: its results and its outcome
    collector                 \* the MetricsCollector: its metrics, its lock and
                              \* the threads calling it

vars ==
    <<phase, file, preferences, use_vertex_ai, memory_service,
      preferences_loaded_from, remote, tasks, write_failures, from_empty, auto_max,
      last, runs, main, adding, filtering, analysing, retrieval, collector>>

\* what the calls on the one store leave alone
others ==
    <<runs, main, adding, filtering, analysing, retrieval, collector>>

\* the one store, but for the record of the last call
store ==
    <<phase, file, preferences, use_vertex_ai, memory_service,
      preferences_loaded_from, remote, tasks, write_failures, from_empty, auto_max>>

\* the keys callers pass: an explicit key, the bare prefix, a chosen key
\* that begins with the prefix
Keys ==
    {K_STYLE, PREF_PREFIX, K_PREF_COLOR}

\* the values callers pass
Values ==
    {V_GENERIC_MIXED, V_QUOTED}

\* the results a retrieval is made of
Results ==
    {Fact(F_FORMAL_UPPER), Fact(F_HATS), NoFact}

\* sequences of at most n elements of S
RECURSIVE SeqsUpTo(_, _)
SeqsUpTo(S, n) ==
    IF n = 0 THEN {<<>>}
    ELSE LET shorter == SeqsUpTo(S, n - 1)
         IN  shorter \cup {Append(q, x) : q \in shorter, x \in S}

\* the backing files a store is constructed over
InitialFiles ==
    {FileAbsent, FileUnreadable, FileUndecodable,
     FileText(<<Tok("{"), StrTok(K_STYLE)>>),
     FileText(JsonDump(EmptyDict)),
     FileText(JsonDump(PyDict(<<<<PrefKey(2), V_QUOTED>>>>))),
     FileText(JsonDump(PyList(<<>>))),
     FileText(JsonDump(PyStr(K_STYLE))),
     FileText(JsonDump(PyInt(<<"7">>))),
     FileText(JsonDump(PyNone))}

\* the record of a call: what it was given, for __init__ whether the
\* Memory Bank service could be created, the key an add stored under,
\* whether an exception left it,
\* whether it never returned (a remote write it waits for hangs), whether
\* it wrote the file, and what it did with the remote service
\* (for a sync: whether it reached the service, whether the retrieval
\* failed, how many facts passed the filter, how many entries it merged),
\* for a chat the text the language model answered and which response
\* chat returned
Call(op) ==
    [op |-> op, key |-> EMPTY_STR, value |-> EMPTY_STR, raised |-> FALSE,
     pref_id |-> EMPTY_STR, remote_up |-> FALSE, hung |-> FALSE, write |-> "none", reached |-> FALSE, failed |-> FALSE,
     accepted |-> 0, merged |-> 0, generated |-> <<>>, result |-> <<>>,
     answer |-> <<>>, response |-> "none"]

WriteResult(io) ==
    IF io = "ok" THEN "ok" ELSE "failed"

\* the outcomes the next write of the backing file can have
WriteOutcomes ==
    IF write_failures < MaxWriteFailures THEN IoOutcomes ELSE {"ok"}

\* _save_preferences_to_file(prefs) with outcome io
Save(prefs, io) ==
    /\ file' = SavePreferencesToFile(file, prefs, io)
    /\ write_failures' = write_failures + (IF io = "ok" THEN 0 ELSE 1)

\* the three stores
RunModes ==
    {"remote_ok", "remote_fails", "remote_off"}

\* a store not constructed yet
NoRun ==
    [phase |-> "uninitialized", preferences |-> PyNone, file |-> FileAbsent,
     use_vertex_ai |-> FALSE, memory_service |-> FALSE, remote |-> {}]

\* the settings main() and the agent read, each present (non-empty) or not,
\* and whether the file credentials.json exists
Configurations ==
    [google_api_key : BOOLEAN, openweather_api_key : BOOLEAN,
     google_cloud_project : BOOLEAN, agent_engine_id : BOOLEAN,
     google_cloud_location : BOOLEAN, credentials : BOOLEAN]

\* every setting present
FullConfiguration ==
    [google_api_key |-> TRUE, openweather_api_key |-> TRUE,
     google_cloud_project |-> TRUE, agent_engine_id |-> TRUE,
     google_cloud_location |-> TRUE, credentials |-> TRUE]

\* the start of caller ("main" for main(), "direct" for code that constructs
\* the agent itself) over a configuration: where it stands, whether
\* ensure_data_directory has run, the outcome of the last authenticate()
\* and how many were made, whether the genai client was constructed, the
\* exception that ended it, and the last get_recommendation with the number
\* of activities it put in its context
MainAt(caller, config, use_calendar) ==
    [caller |-> caller, config |-> config, use_calendar |-> use_calendar,
     pc |-> IF caller = "main" THEN "start" ELSE "agent",
     data_dir |-> FALSE, auth |-> "none", auth_calls |-> 0, client |-> FALSE,
     error |-> "none", recommend |-> "none", activities |-> 0]

\* no add_preference in progress
NotAdding ==
    [pc |-> "idle", key |-> EMPTY_STR, value |-> EMPTY_STR, pref_id |-> EMPTY_STR,
     loop |-> "none", write |-> "none"]

\* the loop of load_from_memory_bank not run
NotFiltering ==
    [results |-> <<>>, loaded |-> <<>>, done |-> FALSE]

\* the event a calendar entry is turned into, not analysed yet
EventOf(has_summary, summary, has_location, location) ==
    [has_summary |-> has_summary, summary |-> summary,
     has_location |-> has_location, location |-> location,
     done |-> FALSE, location_type |-> "none", formality |-> "none",
     is_exercise |-> FALSE, is_outdoor |-> FALSE]

\* no event
NotAnalysing ==
    EventOf(FALSE, EMPTY_STR, FALSE, EMPTY_STR)

\* a Memory Bank that answers a retrieval with nothing; repeated says
\* that the last sync came directly after another sync
NoRetrieval ==
    [results |-> <<>>, net |-> "ok", repeated |-> FALSE]

\* the threads that call the collector
Threads ==
    {"t1", "t2"}

\* MetricsCollector.__init__: the counters of self.metrics, the lock free,
\* no thread inside a call.  success is the argument of the record_request
\* a thread is in, observed the snapshot the last get_metrics returned,
\* recorded the number of record_request calls that ran to their end since
\* the metrics were last reset, calls the number of record_request calls
\* made
NewCollector ==
    [total_requests |-> 0, successful_requests |-> 0, failed_requests |-> 0,
     response_times |-> <<>>,
     lock |-> "free",
     pc |-> [t \in Threads |-> "idle"],
     success |-> [t \in Threads |-> FALSE],
     observed |-> [seen |-> FALSE, total_requests |-> 0, successful_requests |-> 0,
                   failed_requests |-> 0, count |-> 0, recorded |-> 0],
     recorded |-> 0,
     calls |-> 0]

\* no application started
NoMain ==
    [MainAt("none", FullConfiguration, FALSE) EXCEPT !.pc = "off"]

Init ==
    /\ phase = "uninitialized"
    /\ file \in InitialFiles
    /\ preferences = PyNone
    /\ use_vertex_ai = FALSE
    /\ memory_service = FALSE
    /\ preferences_loaded_from = "local_file"
    /\ remote = {}
    /\ tasks = <<>>
    /\ write_failures = 0
    /\ from_empty = FALSE
    /\ auto_max = 0
    /\ last = Call("none")
    /\ runs = [m \in RunModes |-> NoRun]
    /\ main = NoMain
    /\ adding = NotAdding
    /\ filtering = NotFiltering
    /\ analysing = NotAnalysing
    /\ retrieval = NoRetrieval
    /\ collector = NewCollector

(***************************************************************************)
(* Actions.                                                                *)
(***************************************************************************)
\* PreferenceManager.__init__: use_arg is the use_vertex_ai argument,
\* available is VERTEX_AI_AVAILABLE, complete says project_id, location and
\* agent_engine_id are all given, init_ok that _initialize_vertex_ai returns
Construct(use_arg, available, complete, init_ok) ==
    /\ phase = "uninitialized"
    /\ LET loaded == LoadPreferencesFromFile(file)
           connected == use_arg /\ available /\ complete /\ init_ok
       IN  IF loaded.raised
           THEN /\ phase' = "crashed"
                /\ last' = [Call("init") EXCEPT !.raised = TRUE, !.remote_up = connected]
                /\ UNCHANGED <<preferences, use_vertex_ai, memory_service, from_empty>>
           ELSE /\ phase' = "ready"
                /\ preferences' = loaded.value
                /\ use_vertex_ai' = connected
                /\ memory_service' = connected
                /\ from_empty' = (loaded.value = EmptyDict)
                /\ last' = [Call("init") EXCEPT !.remote_up = connected]
    /\ preferences_loaded_from' = "local_file"
    /\ UNCHANGED <<others, auto_max>>
    /\ UNCHANGED <<file, remote, tasks, write_failures>>

\* the N of a key pref_N, 0 for a key of another form
KeyNumber(key) ==
    IF \E n \in 0..(MaxPrefs + 2) : PrefKey(n) = key
    THEN CHOOSE n \in 0..(MaxPrefs + 2) : PrefKey(n) = key
    ELSE 0

\* the largest N generated so far, after an add on prefs that returns
AutoMaxAfter(max, prefs, key) ==
    IF StartsWith(key, PREF_PREFIX) /\ KeyNumber(PrefId(prefs, key).key) > max
    THEN KeyNumber(PrefId(prefs, key).key)
    ELSE max

\* whether the local part of an add returns: the key is computed and the
\* value stored without an exception
AddReturns(prefs, key, value) ==
    /\ ~PrefId(prefs, key).raised
    /\ ~StoreInMemory(prefs, PrefId(prefs, key).key, value).raised

\* the mapping after the local part of an add that returns
AddStored(prefs, key, value) ==
    StoreInMemory(prefs, PrefId(prefs, key).key, value).prefs

\* the remote step of add_preference: nothing when use_vertex_ai is off;
\* else a task when asyncio finds a running loop, the write run to
\* completion on an idle loop, or nothing when get_event_loop raises
\* (which is caught)
AddDispatches(uv, ms, value) ==
    IF ~uv THEN {[task |-> FALSE, sent |-> NothingSent]}
    ELSE {[task |-> TRUE, sent |-> NothingSent], [task |-> FALSE, sent |-> NothingSent]}
         \cup {[task |-> FALSE, sent |-> SaveToMemoryBank(uv, ms, value, net)] :
                 net \in GenerateOutcomes}

\* the remote step of add_preference_async: the write is awaited
AsyncDispatches(uv, ms, value) ==
    IF ~uv THEN {NothingSent}
    ELSE {SaveToMemoryBank(uv, ms, value, net) : net \in GenerateOutcomes}

\* add_preference.  An exception of the local part leaves before the save.
AddPreference(key, value) ==
    /\ phase = "ready"
    /\ IF ~AddReturns(preferences, key, value)
       THEN /\ last' = [Call("add") EXCEPT !.key = key, !.value = value, !.raised = TRUE]
            /\ UNCHANGED <<phase, file, preferences, write_failures, tasks, remote,
                           auto_max>>
       ELSE LET stored == AddStored(preferences, key, value)
            IN  /\ Len(stored.items) <= MaxPrefs
                /\ preferences' = stored
                /\ auto_max' = AutoMaxAfter(auto_max, preferences, key)
                /\ \E io \in WriteOutcomes :
                      /\ Save(stored, io)
                      /\ \E d \in AddDispatches(use_vertex_ai, memory_service, value) :
                            /\ IF d.task
                               THEN /\ Len(tasks) < MaxTasks
                                    /\ tasks' = Append(tasks, value)
                               ELSE tasks' = tasks
                            /\ remote' = IF d.sent.stored THEN remote \cup {value}
                                         ELSE remote
                            /\ phase' = IF d.sent.hung THEN "blocked" ELSE phase
                            /\ last' = [Call("add") EXCEPT
                                          !.key = key, !.value = value,
                                          !.pref_id = PrefId(preferences, key).key,
                                          !.hung = d.sent.hung,
                                          !.write = WriteResult(io),
                                          !.generated = d.sent.generated]
    /\ UNCHANGED others
    /\ UNCHANGED <<use_vertex_ai, memory_service, preferences_loaded_from, from_empty>>

\* add_preference_async
AddPreferenceAsync(key, value) ==
    /\ phase = "ready"
    /\ IF ~AddReturns(preferences, key, value)
       THEN /\ last' = [Call("add_async") EXCEPT !.key = key, !.value = value,
                                                 !.raised = TRUE]
            /\ UNCHANGED <<phase, file, preferences, write_failures, remote, auto_max>>
       ELSE LET stored == AddStored(preferences, key, value)
            IN  /\ Len(stored.items) <= MaxPrefs
                /\ preferences' = stored
                /\ auto_max' = AutoMaxAfter(auto_max, preferences, key)
                /\ \E io \in WriteOutcomes :
                      /\ Save(stored, io)
                      /\ \E sent \in AsyncDispatches(use_vertex_ai, memory_service, value) :
                            /\ remote' = IF sent.stored THEN remote \cup {value}
                                         ELSE remote
                            /\ phase' = IF sent.hung THEN "blocked" ELSE phase
                            /\ last' = [Call("add_async") EXCEPT
                                          !.key = key, !.value = value,
                                          !.pref_id = PrefId(preferences, key).key,
                                          !.raised = sent.raised,
                                          !.hung = sent.hung,
                                          !.write = WriteResult(io),
                                          !.generated = sent.generated]
    /\ UNCHANGED others
    /\ UNCHANGED <<use_vertex_ai, memory_service, preferences_loaded_from, tasks,
                   from_empty>>

\* chat: generated says generate_content returns, answer is response.text.
\* Every exception inside the try (of generate_content, json.loads,
\* result.get, len(), add_preference_async) is returned as an error text;
\* a detected preference is added under pref_<len + 1>; anything else gets
\* the generic response
Chat(answer, generated) ==
    /\ phase = "ready"
    /\ LET result == JsonLoads(answer)
           detected == /\ Truthy(DictGet(result.members, K_IS_PREFERENCE))
                       /\ Truthy(DictGet(result.members, K_PREFERENCE))
           pref == DictGet(result.members, K_PREFERENCE).text
           key == PrefId(preferences, PREF_PREFIX)
           call == [Call("chat") EXCEPT !.answer = answer, !.failed = ~generated]
       IN  IF ~generated \/ ~result.ok \/ ~result.object
           THEN /\ last' = [call EXCEPT !.response = "error"]
                /\ UNCHANGED <<phase, file, preferences, write_failures, remote,
                               auto_max>>
           ELSE IF ~detected
           THEN /\ last' = [call EXCEPT !.response = "generic"]
                /\ UNCHANGED <<phase, file, preferences, write_failures, remote,
                               auto_max>>
           ELSE IF key.raised \/ ~AddReturns(preferences, key.key, pref)
           THEN /\ last' = [call EXCEPT !.response = "error", !.raised = TRUE,
                                        !.value = pref]
                /\ UNCHANGED <<phase, file, preferences, write_failures, remote,
                               auto_max>>
           ELSE LET stored == AddStored(preferences, key.key, pref)
                IN  /\ Len(stored.items) <= MaxPrefs
                    /\ preferences' = stored
                    /\ auto_max' = AutoMaxAfter(auto_max, preferences, key.key)
                    /\ \E io \in WriteOutcomes :
                          /\ Save(stored, io)
                          /\ \E sent \in AsyncDispatches(use_vertex_ai, memory_service,
                                                         pref) :
                                /\ remote' = IF sent.stored THEN remote \cup {pref}
                                             ELSE remote
                                /\ phase' = IF sent.hung THEN "blocked" ELSE phase
                                /\ last' = [call EXCEPT
                                              !.key = key.key, !.value = pref,
                                              !.pref_id = PrefId(preferences, key.key).key,
                                              !.hung = sent.hung,
                                              !.write = WriteResult(io),
                                              !.generated = sent.generated,
                                              !.response = IF sent.hung THEN "none"
                                                           ELSE "saved"]
    /\ UNCHANGED others
    /\ UNCHANGED <<use_vertex_ai, memory_service, preferences_loaded_from, tasks,
                   from_empty>>

\* a scheduled write that stays scheduled until the service stored the fact
RunTaskRetry(net) ==
    /\ phase = "ready"
    /\ tasks # <<>>
    /\ LET sent == SaveToMemoryBank(use_vertex_ai, memory_service, Head(tasks), net)
       IN  /\ remote' = IF sent.stored THEN remote \cup {Head(tasks)} ELSE remote
           /\ phase' = IF sent.hung THEN "blocked" ELSE phase
           /\ last' = [Call("task") EXCEPT !.value = Head(tasks),
                                           !.raised = sent.raised,
                                           !.hung = sent.hung,
                                           !.generated = sent.generated]
           /\ tasks' = IF sent.generated # <<>> /\ ~sent.stored THEN tasks ELSE Tail(tasks)
    /\ UNCHANGED <<others, auto_max>>
    /\ UNCHANGED <<file, preferences, use_vertex_ai, memory_service,
                   preferences_loaded_from, write_failures, from_empty>>

\* a scheduled _save_to_memory_bank task runs; a write that never returns
\* holds the event loop with it
RunTask(net) ==
    /\ phase = "ready"
    /\ tasks # <<>>
    /\ LET sent == SaveToMemoryBank(use_vertex_ai, memory_service, Head(tasks), net)
       IN  /\ remote' = IF sent.stored THEN remote \cup {Head(tasks)} ELSE remote
           /\ phase' = IF sent.hung THEN "blocked" ELSE phase
           /\ last' = [Call("task") EXCEPT !.value = Head(tasks),
                                           !.raised = sent.raised,
                                           !.hung = sent.hung,
                                           !.generated = sent.generated]
    /\ tasks' = Tail(tasks)
    /\ UNCHANGED <<others, auto_max>>
    /\ UNCHANGED <<file, preferences, use_vertex_ai, memory_service,
                   preferences_loaded_from, write_failures, from_empty>>

\* a clear that writes the file first and empties the mapping only when
\* the write succeeded
ClearPreferencesWriteFirst(io) ==
    /\ phase = "ready"
    /\ io \in WriteOutcomes
    /\ preferences' = IF io = "ok" THEN EmptyDict ELSE preferences
    /\ Save(EmptyDict, io)
    /\ from_empty' = (io = "ok" \/ from_empty)
    /\ last' = [Call("clear") EXCEPT !.write = WriteResult(io)]
    /\ UNCHANGED <<others, auto_max>>
    /\ UNCHANGED <<phase, use_vertex_ai, memory_service, preferences_loaded_from,
                   remote, tasks>>

\* a clear that also drops what the Memory Bank holds
ClearPreferencesRemote(io) ==
    /\ phase = "ready"
    /\ io \in WriteOutcomes
    /\ preferences' = EmptyDict
    /\ Save(EmptyDict, io)
    /\ from_empty' = TRUE
    /\ remote' = {}
    /\ last' = [Call("clear") EXCEPT !.write = WriteResult(io)]
    /\ UNCHANGED <<others, auto_max>>
    /\ UNCHANGED <<phase, use_vertex_ai, memory_service, preferences_loaded_from, tasks>>

\* a clear that also sets the attribution back to the local file
ClearPreferencesResetSource(io) ==
    /\ phase = "ready"
    /\ io \in WriteOutcomes
    /\ preferences' = EmptyDict
    /\ Save(EmptyDict, io)
    /\ from_empty' = TRUE
    /\ preferences_loaded_from' = "local_file"
    /\ last' = [Call("clear") EXCEPT !.write = WriteResult(io)]
    /\ UNCHANGED <<others, auto_max>>
    /\ UNCHANGED <<phase, use_vertex_ai, memory_service, remote, tasks>>

\* clear_preferences
ClearPreferences(io) ==
    /\ phase = "ready"
    /\ io \in WriteOutcomes
    /\ preferences' = EmptyDict
    /\ Save(EmptyDict, io)
    /\ from_empty' = TRUE
    /\ last' = [Call("clear") EXCEPT !.write = WriteResult(io)]
    /\ UNCHANGED <<others, auto_max>>
    /\ UNCHANGED <<phase, use_vertex_ai, memory_service, preferences_loaded_from,
                   remote, tasks>>

\* initialize_memory_bank, load_from_memory_bank included: results are the
\* results the retrieval yields before it raises, when it does (none when
\* the client or the retrieve call raises)
InitializeMemoryBank(results, net) ==
    /\ phase = "ready"
    /\ IF ~use_vertex_ai \/ ~memory_service
       THEN /\ results = <<>>
            /\ net = "ok"
            /\ last' = Call("sync")
            /\ UNCHANGED <<file, preferences, preferences_loaded_from, write_failures>>
       ELSE LET got == LoadFromMemoryBank(preferences, results, net)
                sync == [Call("sync") EXCEPT !.reached = TRUE,
                                             !.failed = (net # "ok"),
                                             !.accepted = Len(LoadedPrefs(results, <<>>)),
                                             !.merged = got.merged]
            IN  /\ net \in {"client_error", "retrieve_error"} => results = <<>>
                /\ Len(got.prefs.items) <= MaxPrefs
                /\ preferences' = got.prefs
                /\ preferences_loaded_from' = SourceAfterLoad(got.returned)
                /\ IF got.save
                   THEN \E io \in WriteOutcomes :
                           /\ Save(got.prefs, io)
                           /\ last' = [sync EXCEPT !.write = WriteResult(io)]
                   ELSE /\ last' = sync
                        /\ UNCHANGED <<file, write_failures>>
    /\ UNCHANGED <<runs, main, adding, filtering, analysing, collector, auto_max>>
    /\ UNCHANGED <<phase, use_vertex_ai, memory_service, remote, tasks, from_empty>>

\* scripts/resync_preferences.py, after the store is constructed and
\* synced: _save_to_memory_bank for every entry of get_all_preferences();
\* nets gives the outcome of each remote write.  A write that raises or
\* never returns ends the loop.
RECURSIVE ResyncAll(_, _, _, _, _)
ResyncAll(uv, ms, items, nets, acc) ==
    IF items = <<>> \/ acc.raised \/ acc.hung THEN acc
    ELSE LET sent == SaveToMemoryBank(uv, ms, Head(items)[2], Head(nets))
         IN  ResyncAll(uv, ms, Tail(items), Tail(nets),
                       [generated |-> acc.generated \o sent.generated,
                        stored |-> IF sent.stored
                                   THEN acc.stored \cup {Head(items)[2]}
                                   ELSE acc.stored,
                        raised |-> sent.raised,
                        hung |-> sent.hung])

\* raised stands for the AttributeError of copy() or items() on an object
\* that is no dict
ResyncPush ==
    /\ phase = "ready"
    /\ IF preferences.type # "dict"
       THEN /\ last' = [Call("resync") EXCEPT !.raised = TRUE]
            /\ UNCHANGED <<phase, remote>>
       ELSE \E nets \in [1..Len(preferences.items) -> GenerateOutcomes] :
               LET done == ResyncAll(use_vertex_ai, memory_service, preferences.items,
                                     nets, [generated |-> <<>>, stored |-> {},
                                            raised |-> FALSE, hung |-> FALSE])
               IN  /\ remote' = remote \cup done.stored
                   /\ phase' = IF done.hung THEN "blocked" ELSE phase
                   /\ last' = [Call("resync") EXCEPT !.generated = done.generated,
                                                     !.raised = done.raised,
                                                     !.hung = done.hung]
    /\ UNCHANGED <<others, auto_max>>
    /\ UNCHANGED <<file, preferences, use_vertex_ai, memory_service,
                   preferences_loaded_from, tasks, write_failures, from_empty>>

\* push_preference for each value in turn: a generic value is skipped, an
\* exception of memories.generate ends the script, a call that never
\* returns holds it
RECURSIVE PushAll(_, _, _)
PushAll(items, nets, acc) ==
    IF items = <<>> THEN acc
    ELSE LET value == Head(items)[2]
         IN  IF PushIsGeneric(value) THEN PushAll(Tail(items), Tail(nets), acc)
             ELSE IF Head(nets) = "ok"
                  THEN PushAll(Tail(items), Tail(nets),
                               [acc EXCEPT !.generated = Append(@, value),
                                           !.stored = @ \cup {value}])
             ELSE IF Head(nets) = "hang"
                  THEN [acc EXCEPT !.generated = Append(@, value), !.hung = TRUE]
             ELSE [acc EXCEPT !.generated = Append(@, value), !.raised = TRUE]

\* scripts/push_preferences.py, past its configuration and authentication:
\* it reads the backing file itself.  No file ends it quietly; a file it
\* cannot open, decode or parse, or that holds no object, ends it with an
\* exception, as does vertexai.Client raising.
PushScript(client_ok) ==
    /\ LET parsed == JsonLoad(file.toks)
           readable == file.kind = "text" /\ parsed.ok /\ parsed.value.type = "dict"
           items == IF readable THEN parsed.value.items ELSE <<>>
       IN  IF file.kind = "absent"
           THEN /\ client_ok
                /\ last' = Call("push")
                /\ remote' = remote
           ELSE IF ~client_ok \/ ~readable
           THEN /\ last' = [Call("push") EXCEPT !.raised = TRUE]
                /\ remote' = remote
           ELSE \E nets \in [1..Len(items) -> {"ok", "generate_error", "hang"}] :
                   LET done == PushAll(items, nets,
                                       [generated |-> <<>>, stored |-> {},
                                        raised |-> FALSE, hung |-> FALSE])
                   IN  /\ remote' = remote \cup done.stored
                       /\ last' = [Call("push") EXCEPT !.generated = done.generated,
                                                       !.raised = done.raised,
                                                       !.hung = done.hung]
    /\ UNCHANGED <<others, auto_max>>
    /\ UNCHANGED <<phase, file, preferences, use_vertex_ai, memory_service,
                   preferences_loaded_from, tasks, write_failures, from_empty>>

\* one PreferenceManager and its callers
Next ==
    \/ \E use_arg, available, complete, init_ok \in BOOLEAN :
          Construct(use_arg, available, complete, init_ok)
    \/ \E key \in Keys, value \in Values : AddPreference(key, value)
    \/ \E key \in Keys, value \in Values : AddPreferenceAsync(key, value)
    \/ \E net \in GenerateOutcomes : RunTask(net)
    \/ \E io \in IoOutcomes : ClearPreferences(io)
    \/ \E results \in SeqsUpTo(Results, MaxFacts), net \in RetrieveOutcomes :
          InitializeMemoryBank(results, net) /\ UNCHANGED retrieval

Spec ==
    Init /\ [][Next]_vars

\* every path that writes to the Memory Bank: the two adds, the task an
\* add schedules, and the two scripts
WritePathsNext ==
    \/ \E use_arg, available, complete, init_ok \in BOOLEAN :
          Construct(use_arg, available, complete, init_ok)
    \/ \E key \in Keys, value \in Values : AddPreference(key, value)
    \/ \E key \in Keys, value \in Values : AddPreferenceAsync(key, value)
    \/ \E net \in GenerateOutcomes : RunTask(net)
    \/ ResyncPush
    \/ \E client_ok \in BOOLEAN : PushScript(client_ok)

WritePathsSpec ==
    Init /\ [][WritePathsNext]_vars

\* get_preference_list: list(self.preferences.values()); raised stands for
\* the AttributeError of values() on an object that is no dict
GetPreferenceList ==
    /\ phase = "ready"
    /\ last' = IF preferences.type = "dict"
               THEN [Call("list") EXCEPT !.result = ValuesOf(preferences.items)]
               ELSE [Call("list") EXCEPT !.raised = TRUE]
    /\ UNCHANGED others
    /\ UNCHANGED store

\* get_all_preferences: self.preferences.copy(); raised stands for the
\* AttributeError of copy() on a str, an int or None (a list has copy())
GetAllPreferences ==
    /\ phase = "ready"
    /\ last' = [Call("get_all") EXCEPT !.raised = preferences.type \notin {"dict", "list"}]
    /\ UNCHANGED others
    /\ UNCHANGED store

\* get_preference_source
GetPreferenceSource ==
    /\ phase = "ready"
    /\ last' = Call("source")
    /\ UNCHANGED others
    /\ UNCHANGED store

\* the store with its readers
ReadPathsNext ==
    \/ \E use_arg, available, complete, init_ok \in BOOLEAN :
          Construct(use_arg, available, complete, init_ok)
    \/ \E key \in Keys, value \in Values : AddPreference(key, value)
    \/ \E io \in IoOutcomes : ClearPreferences(io)
    \/ \E results \in SeqsUpTo(Results, MaxFacts), net \in RetrieveOutcomes :
          InitializeMemoryBank(results, net) /\ UNCHANGED retrieval
    \/ GetPreferenceList
    \/ GetAllPreferences
    \/ GetPreferenceSource

ReadPathsSpec ==
    Init /\ [][ReadPathsNext]_vars

\* __init__ over the file f; connected says the Memory Bank service was
\* created
RunConstruct(f, connected) ==
    LET loaded == LoadPreferencesFromFile(f)
    IN  IF loaded.raised
        THEN [NoRun EXCEPT !.phase = "crashed", !.file = f]
        ELSE [phase |-> "ready", preferences |-> loaded.value, file |-> f,
              use_vertex_ai |-> connected, memory_service |-> connected,
              remote |-> {}]

\* an add that stores and writes the file only once the remote write has
\* stored the fact
RunAddRemoteFirst(st, key, value, io, sent) ==
    IF ~AddReturns(st.preferences, key, value) THEN st
    ELSE IF sent.generated # <<>> /\ ~sent.stored THEN st
    ELSE LET stored == AddStored(st.preferences, key, value)
         IN  [st EXCEPT !.preferences = stored,
                        !.file = SavePreferencesToFile(st.file, stored, io),
                        !.remote = IF sent.stored THEN @ \cup {value} ELSE @]

\* add_preference or add_preference_async on the store st: io is the
\* outcome of the write of the file, sent what the remote step did.  An
\* exception of the local part leaves the store as it was.
RunAdd(st, key, value, io, sent) ==
    IF ~AddReturns(st.preferences, key, value) THEN st
    ELSE LET stored == AddStored(st.preferences, key, value)
         IN  [st EXCEPT !.preferences = stored,
                        !.file = SavePreferencesToFile(st.file, stored, io),
                        !.remote = IF sent.stored THEN @ \cup {value} ELSE @]

\* clear_preferences on the store st
RunClear(st, io) ==
    [st EXCEPT !.preferences = EmptyDict,
               !.file = SavePreferencesToFile(st.file, EmptyDict, io)]

\* the outcomes of a remote write in each of the three stores
ModeNets(m) ==
    IF m = "remote_ok" THEN {"ok"} ELSE {"client_error", "generate_error"}

\* the three stores are constructed over the same file
RunsConstruct ==
    /\ \A m \in RunModes : runs[m].phase = "uninitialized"
    /\ runs' = [m \in RunModes |-> RunConstruct(file, m # "remote_off")]
    /\ last' = Call("init")
    /\ UNCHANGED <<store, main, adding, filtering, analysing, retrieval, collector>>

\* the same add on the three stores, with the same outcome of the write of
\* the file; dispatched says the remote write is run (awaited, run to
\* completion, or as a task), not lost to an exception of asyncio
RunsAdd(key, value, io, dispatched) ==
    /\ \A m \in RunModes : runs[m].phase = "ready"
    /\ \E nets \in [RunModes -> GenerateOutcomes] :
          /\ \A m \in RunModes : nets[m] \in ModeNets(m)
          /\ runs' = [m \in RunModes |->
                        RunAdd(runs[m], key, value, io,
                               IF dispatched /\ runs[m].use_vertex_ai
                               THEN SaveToMemoryBank(runs[m].use_vertex_ai,
                                                     runs[m].memory_service,
                                                     value, nets[m])
                               ELSE NothingSent)]
    /\ \A m \in RunModes : Len(runs'[m].preferences.items) <= MaxPrefs
    /\ last' = [Call("add") EXCEPT !.key = key, !.value = value,
                                   !.write = WriteResult(io)]
    /\ UNCHANGED <<store, main, adding, filtering, analysing, retrieval, collector>>

\* the same clear on the three stores
RunsClear(io) ==
    /\ \A m \in RunModes : runs[m].phase = "ready"
    /\ runs' = [m \in RunModes |-> RunClear(runs[m], io)]
    /\ last' = [Call("clear") EXCEPT !.write = WriteResult(io)]
    /\ UNCHANGED <<store, main, adding, filtering, analysing, retrieval, collector>>

\* one sequence of adds and clears, run on the three stores
ThreeRunsNext ==
    \/ RunsConstruct
    \/ \E key \in Keys, value \in Values, io \in IoOutcomes, dispatched \in BOOLEAN :
          RunsAdd(key, value, io, dispatched)
    \/ \E io \in IoOutcomes : RunsClear(io)

ThreeRunsSpec ==
    Init /\ [][ThreeRunsNext]_vars

\* the keys and the values of the mappings saved and loaded: plain text,
\* text with quotes, text with a backslash, the empty string
RoundTripKeys ==
    {K_STYLE, V_QUOTED, EMPTY_STR}

RoundTripValues ==
    {V_CELSIUS, V_QUOTED, V_BACKSLASH, EMPTY_STR}

\* the mappings of at most MaxPrefs entries over them, in every insertion
\* order
RoundTripMappings ==
    {m \in SeqsUpTo(RoundTripKeys \X RoundTripValues, MaxPrefs) :
        \A i, j \in 1..Len(m) : i # j => m[i][1] # m[j][1]}

\* the files a load is tried on: none, an empty object, an object written
\* by hand with a key twice, a text cut short, bytes that are no text
RoundTripFiles ==
    {FileAbsent, FileUndecodable,
     FileText(JsonDump(EmptyDict)),
     FileText(<<Tok("{"), StrTok(K_STYLE), Tok(":"), StrTok(V_CELSIUS), Tok(","),
                StrTok(K_STYLE), Tok(":"), StrTok(EMPTY_STR), Tok("}")>>),
     FileText(<<Tok("{"), StrTok(K_STYLE)>>)}

\* a constructed store that holds any of the mappings over any of the files
RoundTripInit ==
    /\ phase = "ready"
    /\ file \in RoundTripFiles
    /\ preferences \in {PyDict(m) : m \in RoundTripMappings}
    /\ use_vertex_ai = FALSE
    /\ memory_service = FALSE
    /\ preferences_loaded_from = "local_file"
    /\ remote = {}
    /\ tasks = <<>>
    /\ write_failures = 0
    /\ from_empty = FALSE
    /\ auto_max = 0
    /\ last = Call("none")
    /\ runs = [m \in RunModes |-> NoRun]
    /\ main = NoMain
    /\ adding = NotAdding
    /\ filtering = NotFiltering
    /\ analysing = NotAnalysing
    /\ retrieval = NoRetrieval
    /\ collector = NewCollector

\* _save_preferences_to_file, the write succeeding
SaveStep ==
    /\ phase = "ready"
    /\ file' = SavePreferencesToFile(file, preferences, "ok")
    /\ last' = [Call("save") EXCEPT !.write = "ok"]
    /\ UNCHANGED <<phase, preferences, use_vertex_ai, memory_service,
                   preferences_loaded_from, remote, tasks, write_failures,
                   from_empty, auto_max, others>>

\* self.preferences = self._load_preferences_from_file(); an exception
\* leaves self.preferences as it was
LoadStep ==
    /\ phase = "ready"
    /\ LET loaded == LoadPreferencesFromFile(file)
       IN  /\ preferences' = IF loaded.raised THEN preferences ELSE loaded.value
           /\ last' = [Call("load") EXCEPT !.raised = loaded.raised]
    /\ UNCHANGED <<phase, file, use_vertex_ai, memory_service,
                   preferences_loaded_from, remote, tasks, write_failures,
                   from_empty, auto_max, others>>

RoundTripNext ==
    \/ SaveStep
    \/ LoadStep

RoundTripSpec ==
    RoundTripInit /\ [][RoundTripNext]_vars

\* Config.validate(): the four required settings and credentials.json
ConfigValidate(config) ==
    /\ config.google_api_key
    /\ config.openweather_api_key
    /\ config.google_cloud_project
    /\ config.agent_engine_id
    /\ config.credentials

\* what CalendarConnector.authenticate() can do: return True, return False
\* (no credentials file, or build() raises), raise (reading the token,
\* refreshing it or the OAuth flow raises)
AuthOutcomes ==
    {"ok", "fails", "raises"}

\* the store is not constructed, the application has started
StartupInit ==
    /\ phase = "uninitialized"
    /\ file \in InitialFiles
    /\ preferences = PyNone
    /\ use_vertex_ai = FALSE
    /\ memory_service = FALSE
    /\ preferences_loaded_from = "local_file"
    /\ remote = {}
    /\ tasks = <<>>
    /\ write_failures = 0
    /\ from_empty = FALSE
    /\ auto_max = 0
    /\ last = Call("none")
    /\ runs = [m \in RunModes |-> NoRun]
    /\ main \in {MainAt("main", c, TRUE) : c \in Configurations}
                \cup {MainAt("direct", c, u) : c \in Configurations, u \in BOOLEAN}
    /\ adding = NotAdding
    /\ filtering = NotFiltering
    /\ analysing = NotAnalysing
    /\ retrieval = NoRetrieval
    /\ collector = NewCollector

\* main(): if not Config.validate(): return
MainValidate ==
    /\ main.caller = "main"
    /\ main.pc = "start"
    /\ main' = [main EXCEPT !.pc = IF ConfigValidate(main.config)
                                   THEN "ensure_data_directory" ELSE "returned"]
    /\ UNCHANGED <<store, last, runs, adding, filtering, analysing, retrieval, collector>>

\* main(): Config.ensure_data_directory(), outside the try: an OSError of
\* mkdir leaves main()
MainEnsureDataDirectory(ok) ==
    /\ main.pc = "ensure_data_directory"
    /\ main' = IF ok
               THEN [main EXCEPT !.data_dir = TRUE, !.pc = "authenticate"]
               ELSE [main EXCEPT !.error = "OSError", !.pc = "raised"]
    /\ UNCHANGED <<store, last, runs, adding, filtering, analysing, retrieval, collector>>

\* main(): calendar_connector.authenticate(); False prints and returns, an
\* exception is caught by except Exception, which prints and ends main()
MainAuthenticate(outcome) ==
    /\ main.pc = "authenticate"
    /\ main' = [main EXCEPT
                  !.auth = outcome,
                  !.auth_calls = @ + 1,
                  !.error = IF outcome = "raises" THEN "Exception" ELSE @,
                  !.pc = IF outcome = "ok" THEN "agent" ELSE "returned"]
    /\ UNCHANGED <<store, last, runs, adding, filtering, analysing, retrieval, collector>>

\* where an exception of the agent's constructor leaves the caller: main()
\* catches it, prints and returns; other callers see it
AfterException(caller) ==
    IF caller = "main" THEN "returned" ELSE "raised"

\* the constructor with the client built before the keys are looked at
AgentInitClientFirst ==
    /\ main.pc = "agent"
    /\ main' = IF ~main.config.google_api_key \/ ~main.config.openweather_api_key
               THEN [main EXCEPT !.client = TRUE, !.error = "ValueError",
                                 !.pc = AfterException(main.caller)]
               ELSE [main EXCEPT !.client = TRUE, !.pc = "preference_manager"]
    /\ UNCHANGED <<store, last, runs, adding, filtering, analysing, retrieval, collector>>

\* OutfitRecommendationAgent.__init__ up to the preference manager: the two
\* key checks, then genai.Client and WeatherFetcher
AgentInit ==
    /\ main.pc = "agent"
    /\ main' = IF ~main.config.google_api_key \/ ~main.config.openweather_api_key
               THEN [main EXCEPT !.error = "ValueError",
                                 !.pc = AfterException(main.caller)]
               ELSE [main EXCEPT !.client = TRUE, !.pc = "preference_manager"]
    /\ UNCHANGED <<store, last, runs, adding, filtering, analysing, retrieval, collector>>

\* OutfitRecommendationAgent.__init__: PreferenceManager(use_vertex_ai=True,
\* project_id, location, agent_engine_id, user_id)
AgentPreferenceManager(available, init_ok) ==
    /\ main.pc = "preference_manager"
    /\ Construct(TRUE, available,
                 /\ main.config.google_cloud_project
                 /\ main.config.google_cloud_location
                 /\ main.config.agent_engine_id,
                 init_ok)

\* OutfitRecommendationAgent.__init__ after the preference manager: an
\* exception of its constructor leaves the agent's; main() passes its
\* authenticated connector, another caller that uses the calendar has one
\* created and authenticated, the result not looked at
AgentCalendar(outcome) ==
    /\ main.pc = "preference_manager"
    /\ phase # "uninitialized"
    /\ main' = IF phase = "crashed"
               THEN [main EXCEPT !.error = "Exception",
                                 !.pc = AfterException(main.caller)]
               ELSE IF main.caller = "main" \/ ~main.use_calendar
               THEN [main EXCEPT !.pc = IF main.caller = "main"
                                        THEN "initialize" ELSE "constructed"]
               ELSE [main EXCEPT
                       !.auth = outcome,
                       !.auth_calls = @ + 1,
                       !.error = IF outcome = "raises" THEN "Exception" ELSE @,
                       !.pc = IF outcome = "raises" THEN "raised" ELSE "constructed"]
    /\ UNCHANGED <<store, last, runs, adding, filtering, analysing, retrieval, collector>>

\* main(): await agent.initialize(), which awaits initialize_memory_bank()
MainInitialize(results, net) ==
    /\ main.pc = "initialize"
    /\ last.op = "init"
    /\ InitializeMemoryBank(results, net)
    /\ UNCHANGED retrieval

\* main(): the commands are printed and the interactive loop entered
MainEnterLoop ==
    /\ main.pc = "initialize"
    /\ last.op = "sync"
    /\ main' = [main EXCEPT !.pc = "loop"]
    /\ UNCHANGED <<store, last, runs, adding, filtering, analysing, retrieval, collector>>

\* get_recommendation: the weather is fetched; the activities are those of
\* today's events (events of them) when the calendar is used and
\* authenticate() returns True, none otherwise; the preferences are listed;
\* the model is asked. An exception of authenticate() or of
\* get_preference_list leaves it, a failure of the weather or of the model
\* is returned as a text
GetRecommendation(weather_ok, outcome, events, ai_ok) ==
    /\ main.pc \in {"loop", "constructed"}
    /\ phase = "ready"
    /\ LET calendar == main.use_calendar
           activities == IF calendar /\ outcome = "ok" THEN events ELSE 0
       IN  main' = IF ~weather_ok
                   THEN [main EXCEPT !.recommend = "weather_error", !.activities = 0]
                   ELSE IF calendar /\ outcome = "raises"
                   THEN [main EXCEPT !.recommend = "raised", !.activities = 0,
                                     !.auth = outcome, !.auth_calls = @ + 1]
                   ELSE [main EXCEPT
                           !.recommend = IF preferences.type # "dict" THEN "raised"
                                         ELSE IF ai_ok THEN "recommended"
                                         ELSE "ai_error",
                           !.activities = activities,
                           !.auth = IF calendar THEN outcome ELSE @,
                           !.auth_calls = IF calendar THEN @ + 1 ELSE @]
    /\ main'.auth_calls <= MaxAuthCalls
    /\ UNCHANGED <<store, last, runs, adding, filtering, analysing, retrieval, collector>>

\* the application from its start to its first recommendations
StartupNext ==
    \/ MainValidate
    \/ \E ok \in BOOLEAN : MainEnsureDataDirectory(ok)
    \/ \E outcome \in AuthOutcomes : MainAuthenticate(outcome)
    \/ AgentInit
    \/ \E available, init_ok \in BOOLEAN : AgentPreferenceManager(available, init_ok)
    \/ \E outcome \in AuthOutcomes : AgentCalendar(outcome)
    \/ \E results \in SeqsUpTo(Results, MaxFacts), net \in RetrieveOutcomes :
          MainInitialize(results, net)
    \/ MainEnterLoop
    \/ \E weather_ok, ai_ok \in BOOLEAN, outcome \in AuthOutcomes, events \in 0..MaxEvents :
          GetRecommendation(weather_ok, outcome, events, ai_ok)

StartupSpec ==
    StartupInit /\ [][StartupNext]_vars

\* an agent's store with the chats made over it
ChatNext ==
    \/ \E available, complete, init_ok \in BOOLEAN :
          Construct(TRUE, available, complete, init_ok)
    \/ \E answer \in ChatAnswers, generated \in BOOLEAN : Chat(answer, generated)
    \/ \E io \in IoOutcomes : ClearPreferences(io)

ChatSpec ==
    Init /\ [][ChatNext]_vars

\* what asyncio gives add_preference: a running loop, an idle loop, or an
\* exception of get_event_loop or create_task
LoopStates ==
    {"running", "idle", "error"}

\* add_preference, first two statements: the key is computed and the value
\* stored in memory.  loop is the state of the event loop of the caller.
\* An exception of either statement leaves add_preference.
AddStore(key, value, loop) ==
    /\ phase = "ready"
    /\ adding.pc = "idle"
    /\ IF ~AddReturns(preferences, key, value)
       THEN /\ last' = [Call("add") EXCEPT !.key = key, !.value = value, !.raised = TRUE]
            /\ UNCHANGED <<preferences, auto_max, adding>>
       ELSE LET stored == AddStored(preferences, key, value)
            IN  /\ Len(stored.items) <= MaxPrefs
                /\ (use_vertex_ai /\ loop = "running") => Len(tasks) < MaxTasks
                /\ preferences' = stored
                /\ auto_max' = AutoMaxAfter(auto_max, preferences, key)
                /\ adding' = [pc |-> "stored", key |-> key, value |-> value,
                              pref_id |-> PrefId(preferences, key).key,
                              loop |-> loop, write |-> "none"]
                /\ last' = last
    /\ UNCHANGED <<runs, main, filtering, analysing, retrieval, collector>>
    /\ UNCHANGED <<phase, file, use_vertex_ai, memory_service, preferences_loaded_from,
                   remote, tasks, write_failures, from_empty>>

\* add_preference, third statement: self._save_preferences_to_file()
AddSave(io) ==
    /\ adding.pc = "stored"
    /\ io \in WriteOutcomes
    /\ Save(preferences, io)
    /\ adding' = [adding EXCEPT !.pc = "saved", !.write = WriteResult(io)]
    /\ UNCHANGED <<runs, main, filtering, analysing, retrieval, collector>>
    /\ UNCHANGED <<phase, preferences, use_vertex_ai, memory_service,
                   preferences_loaded_from, remote, tasks, from_empty, auto_max, last>>

\* the remote write dispatched as soon as the value is stored in memory
AddDispatchEarly(net) ==
    /\ adding.pc = "stored"
    /\ LET sent == IF use_vertex_ai /\ adding.loop = "idle"
                   THEN SaveToMemoryBank(use_vertex_ai, memory_service, adding.value, net)
                   ELSE NothingSent
       IN  /\ tasks' = IF use_vertex_ai /\ adding.loop = "running"
                        THEN Append(tasks, adding.value) ELSE tasks
           /\ remote' = IF sent.stored THEN remote \cup {adding.value} ELSE remote
           /\ phase' = IF sent.hung THEN "blocked" ELSE phase
           /\ last' = [Call("add") EXCEPT
                         !.key = adding.key, !.value = adding.value,
                         !.pref_id = adding.pref_id,
                         !.hung = sent.hung,
                         !.write = adding.write,
                         !.generated = sent.generated]
    /\ adding' = NotAdding
    /\ UNCHANGED <<runs, main, filtering, analysing, retrieval, collector>>
    /\ UNCHANGED <<file, preferences, use_vertex_ai, memory_service,
                   preferences_loaded_from, write_failures, from_empty, auto_max>>

\* add_preference, the rest: nothing when use_vertex_ai is off; else
\* create_task on a running loop, run_until_complete on an idle one, and
\* nothing when asyncio raises (which is caught); then add_preference
\* returns
AddDispatch(net) ==
    /\ adding.pc = "saved"
    /\ LET sent == IF use_vertex_ai /\ adding.loop = "idle"
                   THEN SaveToMemoryBank(use_vertex_ai, memory_service, adding.value, net)
                   ELSE NothingSent
       IN  /\ tasks' = IF use_vertex_ai /\ adding.loop = "running"
                        THEN Append(tasks, adding.value) ELSE tasks
           /\ remote' = IF sent.stored THEN remote \cup {adding.value} ELSE remote
           /\ phase' = IF sent.hung THEN "blocked" ELSE phase
           /\ last' = [Call("add") EXCEPT
                         !.key = adding.key, !.value = adding.value,
                         !.pref_id = adding.pref_id,
                         !.hung = sent.hung,
                         !.write = adding.write,
                         !.generated = sent.generated]
    /\ adding' = NotAdding
    /\ UNCHANGED <<runs, main, filtering, analysing, retrieval, collector>>
    /\ UNCHANGED <<file, preferences, use_vertex_ai, memory_service,
                   preferences_loaded_from, write_failures, from_empty, auto_max>>

\* a task of the event loop runs when the code that holds the loop has
\* returned to it: not inside add_preference, which never awaits
LoopRunsTask(net) ==
    /\ adding.pc = "idle"
    /\ RunTask(net)

\* another call on the store, made when add_preference has returned
LoopClears(io) ==
    /\ adding.pc = "idle"
    /\ ClearPreferences(io)

\* add_preference statement by statement, on the event loop of its caller
AddStepsNext ==
    \/ \E use_arg, available, complete, init_ok \in BOOLEAN :
          Construct(use_arg, available, complete, init_ok)
    \/ \E key \in Keys, value \in Values, loop \in LoopStates : AddStore(key, value, loop)
    \/ \E io \in IoOutcomes : AddSave(io)
    \/ \E net \in GenerateOutcomes : AddDispatch(net)
    \/ \E net \in GenerateOutcomes : LoopRunsTask(net)
    \/ \E io \in IoOutcomes : LoopClears(io)

AddStepsSpec ==
    Init /\ [][AddStepsNext]_vars

\* the results the loop of load_from_memory_bank is run over: facts with a
\* keyword in lower case, in upper case, in mixed case, inside a word;
\* facts without one; an empty fact; a result without a fact
FilterResults ==
    {Fact(V_CELSIUS), Fact(F_FORMAL_UPPER), Fact(F_CASUAL_MIXED), Fact(F_LIFESTYLE),
     Fact(F_HATS), Fact(V_QUOTED), Fact(EMPTY_STR), NoFact}

FilterInit ==
    /\ phase = "uninitialized"
    /\ file = FileAbsent
    /\ preferences = PyNone
    /\ use_vertex_ai = FALSE
    /\ memory_service = FALSE
    /\ preferences_loaded_from = "local_file"
    /\ remote = {}
    /\ tasks = <<>>
    /\ write_failures = 0
    /\ from_empty = FALSE
    /\ auto_max = 0
    /\ last = Call("none")
    /\ runs = [m \in RunModes |-> NoRun]
    /\ main = NoMain
    /\ adding = NotAdding
    /\ filtering \in {[NotFiltering EXCEPT !.results = r] :
                         r \in SeqsUpTo(FilterResults, MaxFacts)}
    /\ analysing = NotAnalysing
    /\ retrieval = NoRetrieval
    /\ collector = NewCollector

\* load_from_memory_bank, the loop over search_results
FilterLoop ==
    /\ ~filtering.done
    /\ filtering' = [filtering EXCEPT !.loaded = LoadedPrefs(filtering.results, <<>>),
                                      !.done = TRUE]
    /\ UNCHANGED <<store, last, runs, main, adding, analysing, retrieval, collector>>

FilterNext ==
    FilterLoop

FilterSpec ==
    FilterInit /\ [][FilterNext]_vars

\* the store on an event loop that runs the tasks scheduled on it
TaskNext ==
    \/ \E use_arg, available, complete, init_ok \in BOOLEAN :
          Construct(use_arg, available, complete, init_ok)
    \/ \E key \in Keys, value \in Values : AddPreference(key, value)
    \/ \E key \in Keys, value \in Values : AddPreferenceAsync(key, value)
    \/ \E net \in GenerateOutcomes : RunTask(net)
    \/ \E io \in IoOutcomes : ClearPreferences(io)

\* the loop runs a task that is ready: a task does not stay scheduled for
\* ever while the loop is free to run it
TaskSpec ==
    /\ Init
    /\ [][TaskNext]_vars
    /\ WF_vars(\E net \in GenerateOutcomes : RunTask(net))

\* the store with every call that writes it and the readers of its values
\* and of its attribution
AttributionNext ==
    \/ \E use_arg, available, complete, init_ok \in BOOLEAN :
          Construct(use_arg, available, complete, init_ok)
    \/ \E key \in Keys, value \in Values : AddPreference(key, value)
    \/ \E key \in Keys, value \in Values : AddPreferenceAsync(key, value)
    \/ \E net \in GenerateOutcomes : RunTask(net)
    \/ \E io \in IoOutcomes : ClearPreferences(io)
    \/ \E results \in SeqsUpTo(Results, MaxFacts), net \in RetrieveOutcomes :
          InitializeMemoryBank(results, net) /\ UNCHANGED retrieval
    \/ GetPreferenceList
    \/ GetPreferenceSource

AttributionSpec ==
    Init /\ [][AttributionNext]_vars

\* the memories a retrieval can hold: two facts the keyword test accepts
\* and a result without a fact
RetrievedResults ==
    {Fact(F_FORMAL_UPPER), Fact(F_CASUAL_MIXED), NoFact}

\* what the retrieval answers, the same at every sync of a run: the results
\* it returns, or none when the retrieve call raises
Retrievals ==
    {r \in [results : SeqsUpTo(RetrievedResults, MaxFacts),
            net : {"ok", "retrieve_error"}, repeated : {FALSE}] :
        r.net = "retrieve_error" => r.results = <<>>}

\* a store not constructed yet, in front of a Memory Bank that nothing
\* else writes
SyncTwiceInit ==
    /\ phase = "uninitialized"
    /\ file \in InitialFiles
    /\ preferences = PyNone
    /\ use_vertex_ai = FALSE
    /\ memory_service = FALSE
    /\ preferences_loaded_from = "local_file"
    /\ remote = {}
    /\ tasks = <<>>
    /\ write_failures = 0
    /\ from_empty = FALSE
    /\ auto_max = 0
    /\ last = Call("none")
    /\ runs = [m \in RunModes |-> NoRun]
    /\ main = NoMain
    /\ adding = NotAdding
    /\ filtering = NotFiltering
    /\ analysing = NotAnalysing
    /\ retrieval \in Retrievals
    /\ collector = NewCollector

\* initialize_memory_bank against that Memory Bank
Sync ==
    /\ InitializeMemoryBank(retrieval.results, retrieval.net)
    /\ retrieval' = [retrieval EXCEPT !.repeated = (last.op = "sync")]

SyncTwiceNext ==
    \/ \E use_arg, available, complete, init_ok \in BOOLEAN :
          Construct(use_arg, available, complete, init_ok)
    \/ \E key \in Keys, value \in Values : AddPreference(key, value)
    \/ \E io \in IoOutcomes : ClearPreferences(io)
    \/ Sync

SyncTwiceSpec ==
    SyncTwiceInit /\ [][SyncTwiceNext]_vars

\* an event of the calendar, with or without a summary and a location
AnalyzeInit ==
    /\ phase = "uninitialized"
    /\ file = FileAbsent
    /\ preferences = PyNone
    /\ use_vertex_ai = FALSE
    /\ memory_service = FALSE
    /\ preferences_loaded_from = "local_file"
    /\ remote = {}
    /\ tasks = <<>>
    /\ write_failures = 0
    /\ from_empty = FALSE
    /\ auto_max = 0
    /\ last = Call("none")
    /\ runs = [m \in RunModes |-> NoRun]
    /\ main = NoMain
    /\ adding = NotAdding
    /\ filtering = NotFiltering
    /\ analysing \in {EventOf(TRUE, s, TRUE, l) : s \in EventSummaries, l \in EventLocations}
                     \cup {EventOf(FALSE, EMPTY_STR, TRUE, l) : l \in EventLocations}
                     \cup {EventOf(TRUE, s, FALSE, EMPTY_STR) : s \in EventSummaries}
    /\ retrieval = NoRetrieval
    /\ collector = NewCollector

\* activity_detector.analyze_event(e)
Analyze ==
    /\ ~analysing.done
    /\ LET a == AnalyzeEvent(analysing.has_summary, analysing.summary,
                             analysing.has_location, analysing.location)
       IN  analysing' = [analysing EXCEPT !.done = TRUE,
                                          !.location_type = a.location_type,
                                          !.formality = a.formality,
                                          !.is_exercise = a.is_exercise,
                                          !.is_outdoor = a.is_outdoor]
    /\ UNCHANGED <<store, last, runs, main, adding, filtering, retrieval, collector>>

AnalyzeNext ==
    Analyze

AnalyzeSpec ==
    AnalyzeInit /\ [][AnalyzeNext]_vars

\* the frame of a step of the collector
CollectorOnly ==
    UNCHANGED <<store, last, runs, main, adding, filtering, analysing, retrieval>>

\* the response times recorded
ResponseTimes ==
    {"fast", "slow"}

\* a collector just constructed
CollectorInit ==
    /\ phase = "uninitialized"
    /\ file = FileAbsent
    /\ preferences = PyNone
    /\ use_vertex_ai = FALSE
    /\ memory_service = FALSE
    /\ preferences_loaded_from = "local_file"
    /\ remote = {}
    /\ tasks = <<>>
    /\ write_failures = 0
    /\ from_empty = FALSE
    /\ auto_max = 0
    /\ last = Call("none")
    /\ runs = [m \in RunModes |-> NoRun]
    /\ main = NoMain
    /\ adding = NotAdding
    /\ filtering = NotFiltering
    /\ analysing = NotAnalysing
    /\ retrieval = NoRetrieval
    /\ collector = NewCollector

\* thread t calls record_request(success, ...), get_metrics() or reset()
\* and stands before the with statement
CallRecordRequest(t, success) ==
    /\ collector.pc[t] = "idle"
    /\ collector.calls < MaxRequests
    /\ collector' = [collector EXCEPT !.pc[t] = "record_lock",
                                      !.success[t] = success,
                                      !.calls = @ + 1]
    /\ CollectorOnly

CallGetMetrics(t) ==
    /\ collector.pc[t] = "idle"
    /\ collector' = [collector EXCEPT !.pc[t] = "get_lock"]
    /\ CollectorOnly

CallReset(t) ==
    /\ collector.pc[t] = "idle"
    /\ collector' = [collector EXCEPT !.pc[t] = "reset_lock"]
    /\ CollectorOnly

\* a with statement that enters without taking the lock
AcquireWithoutLock(t) ==
    /\ collector.pc[t] \in {"record_lock", "get_lock", "reset_lock"}
    /\ collector' = [collector EXCEPT
                       !.lock = t,
                       !.pc[t] = CASE collector.pc[t] = "record_lock" -> "record_total"
                                   [] collector.pc[t] = "get_lock" -> "get_read"
                                   [] OTHER -> "reset_assign"]
    /\ CollectorOnly

\* with self.lock: the thread waits until the lock is free and takes it
Acquire(t) ==
    /\ collector.pc[t] \in {"record_lock", "get_lock", "reset_lock"}
    /\ collector.lock = "free"
    /\ collector' = [collector EXCEPT
                       !.lock = t,
                       !.pc[t] = CASE collector.pc[t] = "record_lock" -> "record_total"
                                   [] collector.pc[t] = "get_lock" -> "get_read"
                                   [] OTHER -> "reset_assign"]
    /\ CollectorOnly

\* record_request: self.metrics['total_requests'] += 1
RecordTotal(t) ==
    /\ collector.pc[t] = "record_total"
    /\ collector' = [collector EXCEPT !.total_requests = @ + 1,
                                      !.pc[t] = "record_outcome"]
    /\ CollectorOnly

\* record_request: the successful or the failed counter
RecordOutcome(t) ==
    /\ collector.pc[t] = "record_outcome"
    /\ collector' = IF collector.success[t]
                    THEN [collector EXCEPT !.successful_requests = @ + 1,
                                           !.pc[t] = "record_append"]
                    ELSE [collector EXCEPT !.failed_requests = @ + 1,
                                           !.pc[t] = "record_append"]
    /\ CollectorOnly

\* record_request: self.metrics['response_times'].append(response_time)
RecordAppend(t, response_time) ==
    /\ collector.pc[t] = "record_append"
    /\ collector' = [collector EXCEPT !.response_times = Append(@, response_time),
                                      !.recorded = @ + 1,
                                      !.pc[t] = "release"]
    /\ CollectorOnly

\* get_metrics: the snapshot returned
GetMetrics(t) ==
    /\ collector.pc[t] = "get_read"
    /\ collector' = [collector EXCEPT
                       !.observed = [seen |-> TRUE,
                                     total_requests |-> collector.total_requests,
                                     successful_requests |-> collector.successful_requests,
                                     failed_requests |-> collector.failed_requests,
                                     count |-> Len(collector.response_times),
                                     recorded |-> collector.recorded],
                       !.pc[t] = "release"]
    /\ CollectorOnly

\* reset: self.metrics = {...}
Reset(t) ==
    /\ collector.pc[t] = "reset_assign"
    /\ collector' = [collector EXCEPT !.total_requests = 0,
                                      !.successful_requests = 0,
                                      !.failed_requests = 0,
                                      !.response_times = <<>>,
                                      !.recorded = 0,
                                      !.pc[t] = "release"]
    /\ CollectorOnly

\* the end of the with block: the lock is released and the call returns
Release(t) ==
    /\ collector.pc[t] = "release"
    /\ collector' = [collector EXCEPT !.lock = "free", !.pc[t] = "idle"]
    /\ CollectorOnly

CollectorNext ==
    \/ \E t \in Threads, success \in BOOLEAN : CallRecordRequest(t, success)
    \/ \E t \in Threads : CallGetMetrics(t)
    \/ \E t \in Threads : CallReset(t)
    \/ \E t \in Threads : Acquire(t)
    \/ \E t \in Threads : RecordTotal(t)
    \/ \E t \in Threads : RecordOutcome(t)
    \/ \E t \in Threads, response_time \in ResponseTimes : RecordAppend(t, response_time)
    \/ \E t \in Threads : GetMetrics(t)
    \/ \E t \in Threads : Reset(t)
    \/ \E t \in Threads : Release(t)

CollectorSpec ==
    CollectorInit /\ [][CollectorNext]_vars

(***************************************************************************)
(* Properties.                                                             *)
(***************************************************************************)
\* an add or add_preference_async that returned
AddCall(c) ==
    c.op \in {"add", "add_async"} /\ ~c.raised

\* an add that returned and was given a key that starts with the prefix
AutoAdd(c) ==
    AddCall(c) /\ StartsWith(c.key, PREF_PREFIX)

\* new is old with v stored under k: k holds v, a key that was present
\* keeps its place and the number of entries, and no other entry changes
StoredUnder(old, new, k, v) ==
    /\ k \in KeysOf(new)
    /\ ValueOf(new, k) = v
    /\ KeysOf(new) = KeysOf(old) \cup {k}
    /\ Len(new) = Cardinality(KeysOf(new))
    /\ k \in KeysOf(old) => Len(new) = Len(old)
    /\ \A j \in KeysOf(old) \ {k} : ValueOf(new, j) = ValueOf(old, j)

\* C1: sync() never overwrites an existing entry: every key of the mapping
\* before a sync is still present after it with the same value.
C1_SyncKeepsEntries ==
    [][(last'.op = "sync" /\ preferences.type = "dict")
         => \A k \in KeysOf(preferences.items) :
               /\ k \in KeysOf(preferences'.items)
               /\ ValueOf(preferences'.items, k) = ValueOf(preferences.items, k)]_vars

\* C2: in a store that started empty (or was cleared), an add with the
\* auto-key prefix appends one entry under a key that was not present,
\* holding the value given, and changes no entry that existed; so two such
\* adds in a row create two distinct keys and both values are listed.
C2_AutoKeysDistinct ==
    [][(from_empty /\ AutoAdd(last'))
         => LET old == preferences.items
                new == preferences'.items
            IN  /\ Len(new) = Len(old) + 1
                /\ SubSeq(new, 1, Len(old)) = old
                /\ new[Len(new)][1] \notin KeysOf(old)
                /\ new[Len(new)][2] = last'.value
                /\ (AutoAdd(last) /\ Len(old) > 0)
                     => /\ old[Len(old)][1] # new[Len(new)][1]
                        /\ \E i \in 1..Len(new) : ValuesOf(new)[i] = last.value
                        /\ \E i \in 1..Len(new) : ValuesOf(new)[i] = last'.value]_vars

\* two auto-keyed adds on an empty store: pref_1 and pref_2, both values held
C2_Witness ==
    /\ from_empty
    /\ AutoAdd(last)
    /\ preferences.type = "dict"
    /\ Len(preferences.items) = 2
    /\ preferences.items[1][1] = PrefKey(1)
    /\ preferences.items[1][2] \in Values
    /\ preferences.items[2] = <<PrefKey(2), last.value>>

\* C3: write-through: while no write of the file has failed, after every
\* completed add, add_preference_async, clear or sync the file loads to
\* the in-memory mapping, and after one that changed the mapping the file
\* is the text of the mapping.
C3_WriteThrough ==
    (/\ phase = "ready"
     /\ write_failures = 0
     /\ last.op \in {"add", "add_async", "clear", "sync"}
     /\ ~last.raised)
      => /\ LoadPreferencesFromFile(file) = [raised |-> FALSE, value |-> preferences]
         /\ (last.op # "sync" \/ last.merged > 0)
              => file = FileText(JsonDump(preferences))

\* a sync that merged a fact into a mapping that held an entry, all written
C3_Witness ==
    /\ phase = "ready"
    /\ write_failures = 0
    /\ last.op = "sync"
    /\ last.merged > 0
    /\ preferences.type = "dict"
    /\ Len(preferences.items) = 2
    /\ file = FileText(JsonDump(preferences))

\* C4: no value that contains "remember my clothing preferences" in any
\* letter case is passed to memories.generate, by add_preference,
\* add_preference_async, a scheduled task, the resync script or the push
\* script.
C4_GenericNeverGenerated ==
    \A i \in 1..Len(last.generated) :
        ~Contains(GENERIC_PHRASE, Lower(last.generated[i]))

\* the resync script over a mapping that holds the generic value in mixed
\* case and another value: only the other value is written
C4_Witness ==
    /\ last.op = "resync"
    /\ ~last.raised
    /\ \E i \in 1..Len(preferences.items) : preferences.items[i][2] = V_GENERIC_MIXED
    /\ last.generated = <<V_QUOTED>>

\* C5: a sync whose retrieval fails (the client, the retrieve call, or the
\* iteration, also after facts were accepted) returns without raising,
\* leaves the attribution local_file and changes neither the mapping nor
\* the file.
C5_FallbackOnFailure ==
    [][(last'.op = "sync" /\ last'.failed)
         => /\ ~last'.raised
            /\ preferences_loaded_from' = "local_file"
            /\ preferences' = preferences
            /\ file' = file]_vars

\* a retrieval that failed after a fact had passed the filter
C5_Witness ==
    /\ last.op = "sync"
    /\ last.failed
    /\ last.accepted > 0
    /\ last.merged = 0
    /\ preferences_loaded_from = "local_file"

\* C6: load() never raises and returns the empty mapping when the file is
\* absent, unreadable or holds invalid text: constructing a store over
\* such a file succeeds with an empty mapping.
C6_LoadNeverRaises ==
    last.op = "init"
      => /\ ~last.raised
         /\ (file.kind # "text" \/ ~JsonLoad(file.toks).ok) => preferences = EmptyDict

\* C7: after construction the in-memory set is a mapping, the empty one
\* when the file holds well-formed text that is no object.
C7_AlwaysMapping ==
    (last.op = "init" /\ ~last.raised)
      => /\ preferences.type = "dict"
         /\ (file.kind = "text" /\ JsonLoad(file.toks).ok
               /\ JsonLoad(file.toks).value.type # "dict") => preferences = EmptyDict

\* C8 as stated: every key other than the bare prefix is stored under
\* exactly that key
C8_AnyKeyVerbatim ==
    [][(AddCall(last') /\ last'.key # PREF_PREFIX /\ preferences.type = "dict")
         => StoredUnder(preferences.items, preferences'.items,
                        last'.key, last'.value)]_vars

\* C8: on a mapping, an add returns and stores the value under the key
\* given when the key does not start with "pref_" (replacing the value of
\* a present key, changing no other entry), and under pref_N+1, N the
\* number of entries, when it does; on anything else it raises and changes
\* nothing.
C8_ExplicitKeysVerbatim ==
    [][last'.op \in {"add", "add_async"}
         => IF preferences.type = "dict"
            THEN /\ ~last'.raised
                 /\ StoredUnder(preferences.items, preferences'.items,
                                IF StartsWith(last'.key, PREF_PREFIX)
                                THEN PrefKey(Len(preferences.items) + 1)
                                ELSE last'.key,
                                last'.value)
            ELSE /\ last'.raised
                 /\ preferences' = preferences
                 /\ file' = file]_vars

\* an explicit key added again: it keeps its first place and takes the
\* new value
C8_Witness ==
    /\ AddCall(last)
    /\ last.key = K_STYLE
    /\ preferences.type = "dict"
    /\ Len(preferences.items) = 2
    /\ preferences.items[1] = <<K_STYLE, last.value>>

\* C9: clear() leaves the mapping empty, writes the empty mapping to the
\* file (the file holds it when the write succeeds), and makes no remote
\* call: what the Memory Bank holds and the scheduled writes are unchanged.
C9_ClearIsLocal ==
    [][last'.op = "clear"
         => /\ ~last'.raised
            /\ preferences' = EmptyDict
            /\ last'.write # "none"
            /\ last'.write = "ok" => /\ file' = FileText(<<Tok("{"), Tok("}")>>)
                                     /\ JsonLoad(file'.toks) = JsonValue(EmptyDict)
            /\ last'.generated = <<>>
            /\ remote' = remote
            /\ tasks' = tasks]_vars

\* a clear of a store whose values the Memory Bank holds
C9_Witness ==
    /\ last.op = "clear"
    /\ last.write = "ok"
    /\ remote # {}
    /\ preferences = EmptyDict

\* C10: after a sync that reached the remote service the attribution is
\* the Memory Bank exactly when the call merged at least one fact.
C10_SourceIffMerged ==
    (last.op = "sync" /\ last.reached)
      => (preferences_loaded_from = "vertex_ai_memory_bank" <=> last.merged > 0)

\* a sync that reached the service and merged a fact into a mapping that
\* held an entry: the attribution is the Memory Bank
C10_Witness ==
    /\ last.op = "sync"
    /\ last.reached
    /\ ~last.failed
    /\ last.merged > 0
    /\ preferences_loaded_from = "vertex_ai_memory_bank"
    /\ preferences.type = "dict"
    /\ Len(preferences.items) > last.merged

\* the object holds an entry with this value
HasValue(obj, v) ==
    obj.type = "dict" /\ \E i \in 1..Len(obj.items) : obj.items[i][2] = v

\* C11 as stated: with the remote store enabled, whatever the remote write
\* does, an add returns without raising and its entry is in the in-memory
\* mapping and in the backing file
C11_AddAlwaysReturns ==
    [][(last'.op \in {"add", "add_async"} /\ use_vertex_ai)
         => /\ ~last'.raised
            /\ ~last'.hung
            /\ HasValue(preferences', last'.value)
            /\ ~LoadPreferencesFromFile(file').raised
            /\ HasValue(LoadPreferencesFromFile(file').value, last'.value)]_vars

\* C11: with the remote store enabled and a mapping in memory, no add
\* raises, whatever the remote write does; one returns unless a remote
\* write it runs itself never returns (add_preference_async, and
\* add_preference off a running loop); returned or not, the entry is in
\* the in-memory mapping, and in the backing file when the write of the
\* file succeeded.  On anything that is no mapping the add raises before
\* any remote write and changes nothing.
C11_RemoteFailureNotSurfaced ==
    [][(last'.op \in {"add", "add_async"} /\ use_vertex_ai)
         => IF preferences.type = "dict"
            THEN /\ ~last'.raised
                 /\ last'.hung <=> phase' = "blocked"
                 /\ last'.hung => /\ last'.generated = <<last'.value>>
                                  /\ last'.value \notin remote' \ remote
                 /\ HasValue(preferences', last'.value)
                 /\ last'.write = "ok"
                      => /\ ~LoadPreferencesFromFile(file').raised
                         /\ LoadPreferencesFromFile(file').value = preferences'
            ELSE /\ last'.raised
                 /\ ~last'.hung
                 /\ last'.generated = <<>>
                 /\ preferences' = preferences
                 /\ file' = file
                 /\ remote' = remote]_vars

\* add_preference_async whose remote write was made and failed: the call
\* returned, the entry is stored and written, the service holds nothing
C11_Witness ==
    /\ last.op = "add_async"
    /\ use_vertex_ai
    /\ phase = "ready"
    /\ ~last.raised
    /\ last.generated = <<last.value>>
    /\ last.value \notin remote
    /\ HasValue(preferences, last.value)
    /\ last.write = "ok"
    /\ file = FileText(JsonDump(preferences))

\* C12: given the same adds and clears (and the same outcomes of the
\* writes of the file), the store whose remote writes all succeed, the
\* store whose remote writes all fail and the store with the remote
\* switched off hold the same in-memory mapping and the same file after
\* each call.
C12_LocalAuthoritative ==
    \A m1, m2 \in RunModes :
        /\ runs[m1].phase = runs[m2].phase
        /\ runs[m1].preferences = runs[m2].preferences
        /\ runs[m1].file = runs[m2].file

\* after an add of a second entry: written in all three, held by the
\* service in the first store only
C12_Witness ==
    /\ last.op = "add"
    /\ last.write = "ok"
    /\ last.value \in runs["remote_ok"].remote
    /\ runs["remote_fails"].use_vertex_ai
    /\ runs["remote_fails"].remote = {}
    /\ ~runs["remote_off"].use_vertex_ai
    /\ Len(runs["remote_off"].preferences.items) = 2
    /\ runs["remote_fails"].file = FileText(JsonDump(runs["remote_ok"].preferences))

\* C13: a load of the file a save has written returns the mapping saved,
\* keys, values and order; and a save of a mapping just loaded leaves what
\* the file loads to unchanged.
C13_RoundTrip ==
    [][/\ last'.op = "save"
          => LoadPreferencesFromFile(file') = [raised |-> FALSE, value |-> preferences]
       /\ (last.op = "load" /\ ~last.raised /\ last'.op = "save")
          => LoadPreferencesFromFile(file') = LoadPreferencesFromFile(file)
       /\ (last.op = "save" /\ last'.op = "load")
          => ~last'.raised /\ preferences' = preferences /\ file' = file]_vars

\* a mapping with a quote in a key and a backslash in a value, saved and
\* loaded back
C13_Witness ==
    /\ last.op = "load"
    /\ ~last.raised
    /\ preferences = PyDict(<<<<V_QUOTED, V_BACKSLASH>>, <<K_STYLE, V_QUOTED>>>>)
    /\ file = FileText(JsonDump(preferences))

\* C14: get_preference_list, get_all_preferences and
\* get_preference_source change nothing of the store (mapping, file,
\* attribution, Memory Bank, scheduled writes); the list returned holds the
\* values in the order of the mapping; and in that order every key stays
\* where it was first inserted: an add or a sync leaves the keys already
\* present at their positions, overwritten or not, and puts new keys after
\* them.
C14_ListReadOnlyOrdered ==
    [][/\ last'.op \in {"list", "get_all", "source"}
          => /\ store' = store
             /\ (last'.op = "list" /\ ~last'.raised)
                  => /\ Len(last'.result) = Len(preferences.items)
                     /\ \A i \in 1..Len(preferences.items) :
                           last'.result[i] = preferences.items[i][2]
       /\ (preferences.type = "dict" /\ preferences'.type = "dict"
             /\ last'.op \in {"add", "add_async", "sync"})
          => /\ Len(preferences'.items) >= Len(preferences.items)
             /\ \A i \in 1..Len(preferences.items) :
                   preferences'.items[i][1] = preferences.items[i][1]]_vars

\* the list of a mapping whose first key was given by the caller and
\* whose second was generated, after a write to the Memory Bank
C14_Witness ==
    /\ last.op = "list"
    /\ ~last.raised
    /\ remote # {}
    /\ Len(preferences.items) = 2
    /\ preferences.items[1][1] = K_STYLE
    /\ last.result = <<preferences.items[1][2], preferences.items[2][2]>>
    /\ last.result[1] # last.result[2]

\* C15: the N of the key pref_N an auto-keyed add generates is strictly
\* greater than the N every earlier auto-keyed add of the same instance
\* generated, whatever adds, clears and syncs came between.
C15_AutoCounterMonotonic ==
    [][AutoAdd(last') => KeyNumber(last'.pref_id) > auto_max]_vars

\* C16: when the Memory Bank service cannot be created (the SDK is not
\* available, a setting is missing, or creating the service raises)
\* construction completes without raising; and no add, add_preference_async,
\* sync or clear of a store without the service makes a remote call, a
\* sync leaving mapping, file and attribution as they were.
C16_DegradesToLocal ==
    [][/\ (last'.op = "init" /\ ~last'.remote_up)
          => /\ ~last'.raised
             /\ phase' = "ready"
             /\ ~use_vertex_ai'
       /\ (phase = "ready" /\ ~use_vertex_ai
             /\ last'.op \in {"add", "add_async", "sync", "clear"})
          => /\ last'.generated = <<>>
             /\ ~last'.reached
             /\ ~last'.hung
             /\ remote' = remote
             /\ tasks' = tasks
             /\ last'.op = "sync"
                  => /\ preferences' = preferences
                     /\ file' = file
                     /\ preferences_loaded_from' = preferences_loaded_from]_vars

\* C17: an add, add_preference_async, clear or sync whose write of the
\* file fails does not raise, and returns (unless a remote write it waits
\* for never returns); the file holds what it held or nothing, and the
\* in-memory mapping holds the result of the mutation: the value under the
\* key of the add, the empty mapping after clear, the merged keys after
\* sync.
C17_FailedWriteNotRaised ==
    [][(last'.write = "failed" /\ last'.op \in {"add", "add_async", "clear", "sync"})
         => /\ ~last'.raised
            /\ ~last'.hung => phase' = "ready"
            /\ file' \in {file, FileText(<<>>)}
            /\ write_failures' = write_failures + 1
            /\ last'.op \in {"add", "add_async"}
                 => /\ last'.pref_id \in KeysOf(preferences'.items)
                    /\ ValueOf(preferences'.items, last'.pref_id) = last'.value
            /\ last'.op = "clear" => preferences' = EmptyDict
            /\ last'.op = "sync"
                 => /\ last'.merged > 0
                    /\ \A n \in 1..last'.merged :
                          /\ PrefKey(n) \in KeysOf(preferences'.items)
                          /\ ValueOf(preferences'.items, PrefKey(n)) = F_FORMAL_UPPER]_vars

\* a clear whose write failed: the mapping is empty, the file still loads
\* to the entries it held
C17_Witness ==
    /\ last.op = "clear"
    /\ last.write = "failed"
    /\ phase = "ready"
    /\ preferences = EmptyDict
    /\ ~LoadPreferencesFromFile(file).raised
    /\ LoadPreferencesFromFile(file).value.type = "dict"
    /\ Len(LoadPreferencesFromFile(file).value.items) > 0

C19_ExternalFailuresReachLoop ==
    /\ (/\ main.caller = "main"
        /\ ConfigValidate(main.config)
        /\ main.pc \in {"returned", "raised"}) =>
          \/ main.error = "OSError"
          \/ phase = "crashed"
    /\ (/\ main.recommend \in {"recommended", "ai_error"}
        /\ main.use_calendar
        /\ main.auth = "fails") =>
          main.activities = 0

\* an answer that cannot be parsed, or is no object with both keys
MalformedAnswer(toks) ==
    LET result == JsonLoads(toks)
    IN  \/ ~result.ok
        \/ ~result.object
        \/ K_IS_PREFERENCE \notin KeysOf(result.members)
        \/ K_PREFERENCE \notin KeysOf(result.members)

\* C20: a chat in which the language model answered, and its answer is
\* malformed, returns the generic response (the one a message that is no
\* preference gets, not an error text) and leaves the preference store, its
\* file and the Memory Bank as they were.
C20_MalformedGetsGeneric ==
    [][(/\ last'.op = "chat"
        /\ ~last'.failed
        /\ MalformedAnswer(last'.answer)) =>
          /\ last'.response = "generic"
          /\ UNCHANGED store]_vars

\* C21: a step of add_preference that dispatches the remote write (a task
\* is scheduled, generate is called, or the call returns) starts with the
\* value stored in memory under its key and the write of the file done
\* (the file holding the mapping when it succeeded); with a running event
\* loop that step calls nothing remote and only appends the task; and a
\* task runs only when no add_preference is in progress.
C21_LocalBeforeRemote ==
    [][/\ (/\ adding.pc # "idle"
           /\ \/ Len(tasks') > Len(tasks)
              \/ remote' # remote
              \/ last' # last
              \/ phase' # phase
              \/ adding'.pc = "idle") =>
             /\ adding.pc = "saved"
             /\ adding.pref_id \in KeysOf(preferences.items)
             /\ ValueOf(preferences.items, adding.pref_id) = adding.value
             /\ adding.write = "ok" => file = FileText(JsonDump(preferences))
       /\ (/\ adding.pc # "idle"
           /\ adding'.pc = "idle"
           /\ adding.loop = "running") =>
             /\ remote' = remote
             /\ last'.generated = <<>>
             /\ phase' = phase
             /\ tasks' = IF use_vertex_ai THEN Append(tasks, adding.value) ELSE tasks
       /\ (tasks # <<>> /\ tasks' = Tail(tasks)) =>
             /\ adding.pc = "idle"
             /\ adding'.pc = "idle"]_vars

\* add_preference has returned with the file written and its remote write
\* scheduled, nothing sent yet
C21_Witness ==
    /\ adding.pc = "idle"
    /\ last.op = "add"
    /\ last.write = "ok"
    /\ tasks = <<last.value>>
    /\ remote = {}
    /\ file = FileText(JsonDump(preferences))

\* C22: a sync that reaches the Memory Bank over a mapping, the retrieval
\* succeeding and j facts passing the filter, leaves the mapping with j
\* entries more than it had.
C22_SyncAccumulates ==
    [][(/\ last'.op = "sync"
        /\ last'.reached
        /\ ~last'.failed
        /\ preferences.type = "dict") =>
          Len(preferences'.items) = Len(preferences.items) + last'.accepted]_vars

\* C23: a call that is not clear_preferences removes no key: every key of
\* the mapping before an add, an add_preference_async, a scheduled remote
\* write or a sync is a key of the mapping after it.
C23_KeysOnlyLeaveByClear ==
    [][(preferences.type = "dict" /\ last'.op # "clear") =>
          /\ preferences'.type = "dict"
          /\ KeysOf(preferences.items) \subseteq KeysOf(preferences'.items)]_vars

\* a sync has merged a fact into a mapping that keeps its explicit key
C23_Witness ==
    /\ last.op = "sync"
    /\ last.merged > 0
    /\ K_STYLE \in KeysOf(preferences.items)
    /\ PrefKey(1) \in KeysOf(preferences.items)

\* a result whose fact is a non-empty text with one of the four keywords
\* in it, whatever the case of its letters
PassesFilter(r) ==
    /\ r.has_fact
    /\ r.fact # EMPTY_STR
    /\ \E kw \in {KW_PREFER, KW_STYLE, KW_CASUAL, KW_FORMAL} :
          \E i \in 1..Len(r.fact) :
             /\ i + Len(kw) - 1 <= Len(r.fact)
             /\ \A j \in 1..Len(kw) : LowerChar(r.fact[i + j - 1]) = kw[j]

\* C24: the dict the loop of load_from_memory_bank builds holds, in the
\* order retrieved and under pref_1, pref_2, ..., exactly the facts that are
\* non-empty and contain "prefer", "style", "casual" or "formal" compared
\* case-insensitively; every other fact and every result without a fact is
\* left out, and the facts after it are still looked at.
C24_FilterIffKeyword ==
    filtering.done =>
       LET passing == SelectSeq(filtering.results, PassesFilter)
       IN  /\ Len(filtering.loaded) = Len(passing)
           /\ \A i \in 1..Len(passing) :
                 filtering.loaded[i] = <<PrefKey(i), passing[i].fact>>

\* the loop has run over a result without a fact followed by a fact with
\* a keyword in upper case, and kept the fact
C24_Witness ==
    /\ filtering.done
    /\ filtering.results = <<NoFact, Fact(F_FORMAL_UPPER)>>
    /\ filtering.loaded = <<<<PrefKey(1), F_FORMAL_UPPER>>>>

OccursIn(word, text) ==
    \E i \in 1..Len(text) :
       /\ i + Len(word) - 1 <= Len(text)
       /\ \A j \in 1..Len(word) : LowerChar(text[i + j - 1]) = word[j]

\* C26: the location type of an analysed event is outdoor when its location
\* holds an outdoor word, else office when it holds an office word, else
\* home when it holds a home word, else indoor; its formality is formal
\* when its summary holds a formal word, else business_casual when it holds
\* a business word, else casual; and is_outdoor holds whenever the location
\* type is outdoor.
C26_FirstMatchWins ==
    analysing.done =>
       LET loc == analysing.location
           sum == analysing.summary
           outdoor == \E w \in {OUTDOOR_LOCATION_WORDS[i] : i \in 1..4} : OccursIn(w, loc)
           office == \E w \in {OFFICE_LOCATION_WORDS[i] : i \in 1..2} : OccursIn(w, loc)
           home == \E w \in {HOME_LOCATION_WORDS[i] : i \in 1..2} : OccursIn(w, loc)
           formal == \E w \in {FORMAL_WORDS[i] : i \in 1..4} : OccursIn(w, sum)
           business == \E w \in {BUSINESS_WORDS[i] : i \in 1..3} : OccursIn(w, sum)
       IN  /\ outdoor => analysing.location_type = "outdoor"
           /\ (~outdoor /\ office) => analysing.location_type = "office"
           /\ (~outdoor /\ ~office /\ home) => analysing.location_type = "home"
           /\ (~outdoor /\ ~office /\ ~home) => analysing.location_type = "indoor"
           /\ formal => analysing.formality = "formal"
           /\ (~formal /\ business) => analysing.formality = "business_casual"
           /\ (~formal /\ ~business) => analysing.formality = "casual"
           /\ analysing.location_type = "outdoor" => analysing.is_outdoor

\* an event in an office park with a work meeting has been analysed: the
\* outdoor word and the formal word win
C26_Witness ==
    /\ analysing.done
    /\ analysing.location = <<"O", "f", "f", "i", "c", "e", " ", "P", "a", "r", "k">>
    /\ analysing.summary = <<"W", "o", "r", "k", " ", "m", "e", "e", "t", "i", "n", "g">>
    /\ analysing.location_type = "outdoor"
    /\ analysing.formality = "formal"
    /\ analysing.is_outdoor

\* C27: in a store that started empty (or was cleared), whatever adds,
\* syncs and clears followed, every key pref_m of the mapping has
\* 1 <= m <= the number of entries; hence pref_(size + 1), the key an
\* auto-keyed add chooses, is not a key of the mapping.
C27_AutoKeyBound ==
    (phase = "ready" /\ from_empty)
       => /\ preferences.type = "dict"
          /\ \A m \in 0..(MaxPrefs + MaxFacts + 2) :
                PrefKey(m) \in KeysOf(preferences.items)
                   => (1 <= m /\ m <= Len(preferences.items))
          /\ PrefKey(Len(preferences.items) + 1) \notin KeysOf(preferences.items)

\* an explicit key, then an auto-keyed add: pref_2 is held by a mapping of
\* two entries that holds no pref_1
C27_Witness ==
    /\ from_empty
    /\ AutoAdd(last)
    /\ preferences.type = "dict"
    /\ Len(preferences.items) = 2
    /\ preferences.items[1][1] = K_STYLE
    /\ preferences.items[2][1] = PrefKey(2)

\* C28: the attribution is the local file after construction; add,
\* add_preference_async, a scheduled remote write, clear, list and the
\* reader of the attribution leave it as it was, so only a sync changes
\* it; and a clear in a store whose attribution is the Memory Bank leaves
\* the attribution there, over an empty mapping.
C28_AttributionFrame ==
    [][/\ last'.op = "init" => preferences_loaded_from' = "local_file"
       /\ last'.op \in {"add", "add_async", "task", "clear", "list", "source"}
          => preferences_loaded_from' = preferences_loaded_from
       /\ preferences_loaded_from' # preferences_loaded_from => last'.op = "sync"
       /\ (last'.op = "clear" /\ preferences_loaded_from = "vertex_ai_memory_bank")
          => /\ preferences_loaded_from' = "vertex_ai_memory_bank"
             /\ preferences' = EmptyDict]_vars

\* a sync merged facts and the clear that followed it emptied the
\* mapping: the attribution is the Memory Bank
C28_Witness ==
    /\ last.op = "clear"
    /\ preferences = EmptyDict
    /\ preferences_loaded_from = "vertex_ai_memory_bank"

C30_SnapshotsConsistent ==
    collector.observed.seen
       => /\ collector.observed.total_requests
               = collector.observed.successful_requests
                 + collector.observed.failed_requests
          /\ collector.observed.total_requests = collector.observed.count
          /\ collector.observed.total_requests = collector.observed.recorded

\* a thread has taken a snapshot of two requests, one successful and one
\* failed, while the other thread waits for the lock to record a third
C30_Witness ==
    \E t \in Threads, u \in Threads :
       /\ t # u
       /\ collector.pc[t] = "release"
       /\ collector.lock = t
       /\ collector.pc[u] = "record_lock"
       /\ collector.observed.seen
       /\ collector.observed.total_requests = 2
       /\ collector.observed.successful_requests = 1
       /\ collector.observed.failed_requests = 1
       /\ collector.total_requests = 2

====
